---------------------------- MODULE Spec2Model ----------------------------
(***************************************************************************)
(* A model of evalPy: the element selector (parse_element_list), the      *)
(* molecule constraints and composition filter (MoleculeConstraints,      *)
(* molecule_has_required_elements, check_molecule_composition), the        *)
(* species pattern expander (extract_species_from_path), the reaction file *)
(* filter (filter_res_file), the parser of the scoring output              *)
(* (parse_res_file), evaluate_benchmark, which joins them, and the error   *)
(* statistics of the table it returns (statistical_measures).              *)
(*                                                                         *)
(* Python strings are sequences of one-character strings, Python lists and *)
(* tuples are sequences, Python sets are sets, and None is the value None. *)
(* A call that raises is a result record whose field raised is not "none". *)
(***************************************************************************)
EXTENDS Integers, Sequences, FiniteSets, TLC

VARIABLES
    pc,                 \* the operation the run is at
    arg_items,          \* the items the caller wrote into --allowed-elements
    allowed_elements,   \* the string handed to parse_element_list (or None)
    elem_out,           \* what parse_element_list returned or raised
    args,               \* the other arguments of MoleculeConstraints(...)
    config,             \* what MoleculeConstraints(...) returned or raised
    mols,               \* the molecules read from the filesystem
    allowed_mols,       \* what check_molecule_composition(mols, config) returned
    refiltered,         \* what a second pass over allowed_mols returned
    mol,                \* the molecule handed to molecule_has_required_elements
    required_elements,  \* its list of required-element tuples
    has_required,       \* what molecule_has_required_elements returned
    path,               \* the token handed to extract_species_from_path
    species_out,        \* what extract_species_from_path returned or raised
    res_lines,          \* the lines of the .res file
    valid_species,      \* the names filter_res_file accepts
    res_out,            \* what filter_res_file returned or raised
    res_file_content,   \* the text the scoring script wrote to stdout
    strictmode,         \* --strict
    verbosity,          \* --verbosity
    res_data,           \* what parse_res_file returned or raised
    printed,            \* the messages printed, in order
    bench_out,          \* what evaluate_benchmark returned or raised
    missing_indices,    \* the reaction indices it reported as not parsed
    script_runs,        \* how often sp.run started the scoring script
    returncode,         \* the exit status of the scoring script (or None)
    benchmark_results,  \* the table main() hands to statistical_measures
    stats               \* what statistical_measures returned

elemVars == <<arg_items, allowed_elements, elem_out>>
filterVars == <<args, config, mols, allowed_mols, refiltered>>
requiredVars == <<mol, required_elements, has_required>>
speciesVars == <<path, species_out>>
resVars == <<res_lines, valid_species, res_out>>
parseVars == <<res_file_content, strictmode, verbosity, res_data, printed>>
benchVars == <<bench_out, missing_indices, script_runs, returncode>>
statVars == <<benchmark_results, stats>>
vars ==
    <<pc, elemVars, filterVars, requiredVars, speciesVars, resVars, parseVars, benchVars,
      statVars>>

\* None where a str is expected: a sequence that is no string of characters
None == <<"None">>
\* an int | None: NoneInt is None and Some(v) the integer v
NoneInt == <<>>
Some(v) == <<v>>
Get(x) == x[1]
NoResult == [raised |-> "not called"]

---------------------------------------------------------------------------
(* Bounds of the model.                                                    *)
MaxNum == 3        \* element numbers 0..MaxNum are written in the arguments
MaxItems == 2      \* items of one --allowed-elements argument
MaxElem == 2       \* element indices 0..MaxElem occur in molecules and tuples
MaxAtoms == 2      \* atoms of one molecule
MaxGroups == 2     \* tuples of one required-elements list
MaxMols == 2       \* molecules of one run
MaxBound == 2      \* the bounds given to MoleculeConstraints are at most this
MaxPathLen == 6    \* characters of one species-path token
MaxLines == 3      \* lines of one .res file
MaxSpeciesTokens == 2  \* species tokens of one reaction line
MaxStoich == 2     \* stoichiometry tokens of one reaction line
MaxOutLines == 3   \* lines of the scoring script's output
MaxBenchLines == 2 \* lines of the .res file of a whole evaluation
MaxRows == 2       \* rows of the table handed to statistical_measures

---------------------------------------------------------------------------
(* Python str helpers.                                                     *)

IsSpace(c) == c = " "

Digits == <<"0", "1", "2", "3", "4", "5", "6", "7", "8", "9">>

IsDigit(c) == \E i \in 1..10 : Digits[i] = c

DigitVal(c) == (CHOOSE i \in 1..10 : Digits[i] = c) - 1

RECURSIVE LStrip(_)
LStrip(s) == IF s # <<>> /\ IsSpace(Head(s)) THEN LStrip(Tail(s)) ELSE s

RECURSIVE RStrip(_)
RStrip(s) ==
    IF s # <<>> /\ IsSpace(s[Len(s)]) THEN RStrip(SubSeq(s, 1, Len(s) - 1)) ELSE s

\* str.strip()
Strip(s) == RStrip(LStrip(s))

\* str.split(sep) for a one-character sep: cur is the piece being read
RECURSIVE SplitFrom(_, _, _)
SplitFrom(s, sep, cur) ==
    IF s = <<>> THEN <<cur>>
    ELSE IF Head(s) = sep THEN <<cur>> \o SplitFrom(Tail(s), sep, <<>>)
    ELSE SplitFrom(Tail(s), sep, Append(cur, Head(s)))

Split(s, sep) == SplitFrom(s, sep, <<>>)

\* c in s
Contains(s, c) == \E i \in 1..Len(s) : s[i] = c

RECURSIVE DigitsValue(_, _)
DigitsValue(s, acc) ==
    IF s = <<>> THEN acc ELSE DigitsValue(Tail(s), 10 * acc + DigitVal(Head(s)))

\* int(s) of a str: surrounding whitespace is ignored, then an optional sign
\* and decimal digits only (no underscore occurs in the strings of the model)
PyInt(s) ==
    LET t == Strip(s)
        signed == t # <<>> /\ Head(t) \in {"+", "-"}
        d == IF signed THEN Tail(t) ELSE t
    IN  IF d # <<>> /\ \A i \in 1..Len(d) : IsDigit(d[i])
        THEN [ok |-> TRUE,
              val |-> IF signed /\ Head(t) = "-" THEN -DigitsValue(d, 0)
                      ELSE DigitsValue(d, 0)]
        ELSE [ok |-> FALSE, val |-> 0]

\* sorted(list(S)) of a set of integers
SortedList(S) ==
    IF S = {} THEN <<>>
    ELSE LET lo == CHOOSE x \in S : \A y \in S : x <= y
             hi == CHOOSE x \in S : \A y \in S : y <= x
         IN  SelectSeq([i \in 1..(hi - lo + 1) |-> lo + i - 1], LAMBDA x : x \in S)

---------------------------------------------------------------------------
(* parse_element_list                                                      *)

MaxAtomicNumber == 103

\* raise ValueError(...): why names the raise statement, about is the text the
\* message quotes
Raise(why, about) == [raised |-> "ValueError", why |-> why, about |-> about, val |-> <<>>]

Return(v) == [raised |-> "none", why |-> "", about |-> <<>>, val |-> v]

\* the wildcard test made after "*" was replaced by a number: never true
BothWildcardAfterDefaults(start, end) == FALSE

\* the wildcard test of one range item, on its two halves
BothWildcard(start, end) == end = <<"*">> /\ start = <<"*">>

\* the lower end without the shift to 0-based indices
RangeLowUnshifted(startv) == startv

\* the lower end of range(int(start) - 1, int(end))
RangeLow(startv) == startv - 1

\* one pass of the loop body: the indices the item adds, or the error it raises
ParseItem(item) ==
    IF Contains(item, "-")
    THEN LET parts == Split(item, "-")
         IN  IF Len(parts) # 2 THEN Raise("unpack", <<>>)
             ELSE LET start == parts[1]
                      end == parts[2]
                      endv == IF end = <<"*">>
                              THEN [ok |-> TRUE, val |-> MaxAtomicNumber]
                              ELSE PyInt(end)
                      startv == IF start = <<"*">>
                                THEN [ok |-> TRUE, val |-> 0]
                                ELSE PyInt(start)
                  IN  IF BothWildcard(start, end) THEN Raise("both wildcard", <<>>)
                      ELSE IF ~startv.ok \/ ~endv.ok THEN Raise("int", <<>>)
                      ELSE Return(RangeLow(startv.val)..(endv.val - 1))
    ELSE LET v == PyInt(item)
         IN  IF ~v.ok THEN Raise("int", <<>>) ELSE Return({v.val - 1})

RECURSIVE ParseItems(_, _)
ParseItems(items, acc) ==
    IF items = <<>> THEN Return(SortedList(acc))
    ELSE LET r == ParseItem(Head(items))
         IN  IF r.raised # "none" THEN r
             ELSE ParseItems(Tail(items), acc \cup r.val)

StripAll(items) == [i \in 1..Len(items) |-> Strip(items[i])]

parse_element_list(s) ==
    IF s = None \/ s = <<>> THEN Return(<<>>)
    ELSE ParseItems(StripAll(Split(s, ",")), {})

---------------------------------------------------------------------------
(* The argument strings a caller writes: a comma-separated list of items.  *)
(* An item is a record: N (k = "one"), a-b ("range"), a-* ("from"),        *)
(* *-b ("upto"), *-* ("both"), or a piece of text that is none of          *)
(* these ("text"); pad is the whitespace written before it.                *)

\* n >= 0 written in decimal
RECURSIVE Dec(_)
Dec(n) == IF n < 10 THEN <<Digits[n + 1]>> ELSE Dec(n \div 10) \o <<Digits[(n % 10) + 1]>>

Nums == (0..MaxNum) \cup {5, MaxAtomicNumber}

OtherTexts == {<<>>, <<"-">>, <<"*">>, <<"1", "-", "2", "-", "3">>, <<"1", " ", "2">>,
               <<"*", " ", "-", "*">>}

Items ==
    [k : {"one"}, a : Nums, b : {0}, t : {<<>>}, pad : {<<>>, <<" ">>}]
      \cup [k : {"range"}, a : Nums, b : Nums, t : {<<>>}, pad : {<<>>}]
      \cup [k : {"from", "upto"}, a : Nums, b : {0}, t : {<<>>}, pad : {<<>>}]
      \cup [k : {"both"}, a : {0}, b : {0}, t : {<<>>}, pad : {<<>>, <<" ">>}]
      \cup [k : {"text"}, a : {0}, b : {0}, t : OtherTexts, pad : {<<>>}]

RenderItem(it) ==
    it.pad \o
    CASE it.k = "one" -> Dec(it.a)
      [] it.k = "range" -> Dec(it.a) \o <<"-">> \o Dec(it.b)
      [] it.k = "from" -> Dec(it.a) \o <<"-", "*">>
      [] it.k = "upto" -> <<"*", "-">> \o Dec(it.a)
      [] it.k = "both" -> <<"*", "-", "*">>
      [] OTHER -> it.t

RECURSIVE Join(_)
Join(its) ==
    IF its = <<>> THEN <<>>
    ELSE IF Len(its) = 1 THEN RenderItem(its[1])
    ELSE RenderItem(its[1]) \o <<",">> \o Join(Tail(its))

ItemLists == UNION {[1..n -> Items] : n \in 0..MaxItems}

---------------------------------------------------------------------------
(* MoleculeConstraints.__init__                                            *)

\* the test with >= for >: equal bounds are refused
BoundsContradictOrEqual(lower, upper) ==
    lower # NoneInt /\ upper # NoneInt /\ Get(lower) >= Get(upper)

\* the test of one range: both bounds given and lower > upper
BoundsContradict(lower, upper) ==
    lower # NoneInt /\ upper # NoneInt /\ Get(lower) > Get(upper)

MoleculeConstraints(allowed, required, min_charge, max_charge, max_uhf, min_num_atoms, max_num_atoms) ==
    IF BoundsContradict(min_charge, max_charge) THEN Raise("charge", <<>>)
    ELSE IF BoundsContradict(min_num_atoms, max_num_atoms) THEN Raise("num_atoms", <<>>)
    ELSE Return([allowed_elements |-> allowed,
                 required_elements |-> required,
                 min_charge |-> min_charge,
                 max_charge |-> max_charge,
                 max_uhf |-> max_uhf,
                 min_num_atoms |-> min_num_atoms,
                 max_num_atoms |-> max_num_atoms])

---------------------------------------------------------------------------
(* parse_required_elements (eval.py)                                       *)

Singletons(list) == [i \in 1..Len(list) |-> <<list[i]>>]

\* req_all, req_one: the two argument strings (None when not given)
parse_required_elements(req_all, req_one) ==
    LET given(s) == s # None /\ s # <<>>
    IN  IF given(req_all) /\ given(req_one) THEN Raise("both given", <<>>)
        ELSE IF given(req_all)
        THEN LET r == parse_element_list(req_all)
             IN  IF r.raised # "none" THEN r ELSE Return(<<r.val>>)
        ELSE IF given(req_one)
        THEN LET r == parse_element_list(req_one)
             IN  IF r.raised # "none" THEN r ELSE Return(Singletons(r.val))
        ELSE Return(<<>>)

---------------------------------------------------------------------------
(* molecule_has_required_elements and check_molecule_composition           *)

\* x in list
InList(x, list) == \E i \in 1..Len(list) : list[i] = x

\* any(contained) for all(contained)
GroupContainedAny(m, req_elem) == \E i \in 1..Len(req_elem) : InList(req_elem[i], m.ati)

\* all(contained) for one tuple of required elements
GroupContained(m, req_elem) == \A i \in 1..Len(req_elem) : InList(req_elem[i], m.ati)

molecule_has_required_elements(m, required) ==
    \E k \in 1..Len(required) : GroupContained(m, required[k])

\* the test without `if molecule_constraints.allowed_elements:`
ElementsAllowedUnguarded(m, c) ==
    \A i \in 1..Len(m.ati) : InList(m.ati[i], c.allowed_elements)

\* the test on allowed_elements: the molecule falls through when it holds
ElementsAllowed(m, c) ==
    c.allowed_elements # <<>> =>
        \A i \in 1..Len(m.ati) : InList(m.ati[i], c.allowed_elements)

\* the tests on num_atoms with <= for < and >= for >
AtomsOutsideOrAtBound(m, c) ==
    \/ c.min_num_atoms # NoneInt /\ m.num_atoms <= Get(c.min_num_atoms)
    \/ c.max_num_atoms # NoneInt /\ m.num_atoms >= Get(c.max_num_atoms)

\* the tests on num_atoms: TRUE when the loop body reaches `continue`
AtomsOutside(m, c) ==
    \/ c.min_num_atoms # NoneInt /\ m.num_atoms < Get(c.min_num_atoms)
    \/ c.max_num_atoms # NoneInt /\ m.num_atoms > Get(c.max_num_atoms)

\* the tests on the charge
ChargeOutside(m, c) ==
    \/ c.min_charge # NoneInt /\ m.charge < Get(c.min_charge)
    \/ c.max_charge # NoneInt /\ m.charge > Get(c.max_charge)

\* the test on uhf
UhfOutside(m, c) == c.max_uhf # NoneInt /\ m.uhf > Get(c.max_uhf)

\* one pass of the loop body: TRUE when it reaches allowed_mols.append(mol)
Appended(m, c) ==
    IF AtomsOutside(m, c) THEN FALSE
    ELSE IF ~ElementsAllowed(m, c) THEN FALSE
    ELSE IF c.required_elements # <<>>
            /\ ~molecule_has_required_elements(m, c.required_elements) THEN FALSE
    ELSE IF ChargeOutside(m, c) THEN FALSE
    ELSE IF UhfOutside(m, c) THEN FALSE
    ELSE TRUE

\* the loop over ms, with the list built so far
RECURSIVE CheckLoop(_, _, _)
CheckLoop(ms, c, allowed) ==
    IF ms = <<>> THEN allowed
    ELSE CheckLoop(Tail(ms), c,
                   IF Appended(Head(ms), c) THEN Append(allowed, Head(ms)) ELSE allowed)

\* a filter that removes the rejected molecule from the list it iterates over:
\* the molecule after a removed one is never examined and stays
RECURSIVE RemoveLoop(_, _, _)
RemoveLoop(ms, c, kept) ==
    IF ms = <<>> THEN kept
    ELSE IF Appended(Head(ms), c) THEN RemoveLoop(Tail(ms), c, Append(kept, Head(ms)))
    ELSE IF Tail(ms) = <<>> THEN kept
    ELSE RemoveLoop(Tail(Tail(ms)), c, Append(kept, Head(Tail(ms))))

check_by_removing(ms, c) == RemoveLoop(ms, c, <<>>)

check_molecule_composition(ms, c) == CheckLoop(ms, c, <<>>)

---------------------------------------------------------------------------
(* re.match: a pattern is a sequence of elements, each a character class   *)
(* (chars, negated or not) repeated min..max times (max = 0: no limit).    *)
(* The engine is greedy and backtracks: an element takes the longest run   *)
(* for which the rest of the pattern still matches. A match is the         *)
(* sequence of the lengths the elements took; NoMatch otherwise.           *)

NoMatch == <<-1>>

Lit(c) == [neg |-> FALSE, chars |-> {c}, min |-> 1, max |-> 1]

OptLit(c) == [neg |-> FALSE, chars |-> {c}, min |-> 0, max |-> 1]

\* [^...]+
PlusNot(cs) == [neg |-> TRUE, chars |-> cs, min |-> 1, max |-> 0]

Accepts(e, c) == IF e.neg THEN c \notin e.chars ELSE c \in e.chars

\* the longest run element e can take of s from position pos (1-based)
RECURSIVE RunLen(_, _, _, _)
RunLen(e, s, pos, n) ==
    IF pos + n <= Len(s) /\ Accepts(e, s[pos + n]) /\ (e.max = 0 \/ n < e.max)
    THEN RunLen(e, s, pos, n + 1)
    ELSE n

RECURSIVE MatchFrom(_, _, _, _)
RECURSIVE TryCount(_, _, _, _, _)
MatchFrom(re, k, s, pos) ==
    IF k > Len(re) THEN <<>> ELSE TryCount(re, k, s, pos, RunLen(re[k], s, pos, 0))

TryCount(re, k, s, pos, n) ==
    IF n < re[k].min THEN NoMatch
    ELSE LET r == MatchFrom(re, k + 1, s, pos + n)
         IN  IF r # NoMatch THEN <<n>> \o r ELSE TryCount(re, k, s, pos, n - 1)

\* re.match(re, s): anchored at the start of s, not at its end
ReMatch(re, s) == MatchFrom(re, 1, s, 1)

RECURSIVE SumTo(_, _)
SumTo(m, k) == IF k = 0 THEN 0 ELSE m[k] + SumTo(m, k - 1)

\* the text element k of the pattern took in match m of s
Group(m, s, k) == SubSeq(s, SumTo(m, k - 1) + 1, SumTo(m, k))

---------------------------------------------------------------------------
(* extract_species_from_path                                               *)

\* (?P<prefix>[^{}]+)\{(?P<species>[^}]+)\}(?P<suffix>[^/]+)
ReBaseBeforeAndAfter ==
    <<PlusNot({"{", "}"}), Lit("{"), PlusNot({"}"}), Lit("}"), PlusNot({"/"})>>

\* (?P<base>[^{}]+)/?\{(?P<species>[^}]+)\}
ReBaseBefore == <<PlusNot({"{", "}"}), OptLit("/"), Lit("{"), PlusNot({"}"}), Lit("}")>>

\* \{(?P<species>[^}]+)\}(?P<base>[^/]+)
ReBaseAfter == <<Lit("{"), PlusNot({"}"}), Lit("}"), PlusNot({"/"})>>

\* \{(?P<species>[^}]+)\}
ReNoBase == <<Lit("{"), PlusNot({"}"}), Lit("}")>>

\* [s.strip() for s in species.split(",")]
SpeciesItems(species) == StripAll(Split(species, ","))

\* [f"{before}{s}{after}" for s in species]
Expand(before, species, after) ==
    [i \in 1..Len(species) |-> before \o species[i] \o after]

\* base-before tested ahead of base-before-and-after
FormOrderBeforeFirst == <<"before", "before and after", "after", "none">>

\* the order in which the four matches are tested
FormOrder == <<"before and after", "before", "after", "none">>

\* the result of the form named f, given that its pattern matched
ExpandForm(f, p) ==
    CASE f = "before and after" ->
            LET m == ReMatch(ReBaseBeforeAndAfter, p)
            IN  Expand(Group(m, p, 1), SpeciesItems(Group(m, p, 3)), Group(m, p, 5))
      [] f = "before" ->
            LET m == ReMatch(ReBaseBefore, p)
            IN  Expand(Group(m, p, 1), SpeciesItems(Group(m, p, 4)), <<>>)
      [] f = "after" ->
            LET m == ReMatch(ReBaseAfter, p)
            IN  Expand(<<>>, SpeciesItems(Group(m, p, 2)), Group(m, p, 4))
      [] OTHER ->
            LET m == ReMatch(ReNoBase, p)
            IN  SpeciesItems(Group(m, p, 2))

FormMatches(f, p) ==
    CASE f = "before and after" -> ReMatch(ReBaseBeforeAndAfter, p) # NoMatch
      [] f = "before" -> ReMatch(ReBaseBefore, p) # NoMatch
      [] f = "after" -> ReMatch(ReBaseAfter, p) # NoMatch
      [] OTHER -> ReMatch(ReNoBase, p) # NoMatch

\* the chain of if statements, from the k-th on
RECURSIVE FirstForm(_, _)
FirstForm(k, p) ==
    IF k > Len(FormOrder) THEN Raise("invalid format", p)
    ELSE IF FormMatches(FormOrder[k], p) THEN Return(ExpandForm(FormOrder[k], p))
    ELSE FirstForm(k + 1, p)

extract_species_from_path(p) == FirstForm(1, p)

---------------------------------------------------------------------------
(* filter_res_file                                                         *)

\* s.startswith(p)
StartsWith(s, p) == Len(s) >= Len(p) /\ SubSeq(s, 1, Len(p)) = p

\* str.split(): the pieces between runs of whitespace; cur is the piece read
RECURSIVE SplitWsFrom(_, _)
SplitWsFrom(s, cur) ==
    IF s = <<>> THEN (IF cur = <<>> THEN <<>> ELSE <<cur>>)
    ELSE IF IsSpace(Head(s))
    THEN (IF cur = <<>> THEN <<>> ELSE <<cur>>) \o SplitWsFrom(Tail(s), <<>>)
    ELSE SplitWsFrom(Tail(s), Append(cur, Head(s)))

SplitWs(s) == SplitWsFrom(s, <<>>)

\* list.index(x) of a list that holds x, 1-based
IndexOf(list, x) ==
    CHOOSE i \in 1..Len(list) : list[i] = x /\ \A j \in 1..(i - 1) : list[j] # x

\* "x" in tokens and (tokens[0].startswith("$tmer") or tokens[0].startswith("tmer"))
IsTmerEntry(tokens) ==
    /\ InList(<<"x">>, tokens)
    /\ \/ StartsWith(tokens[1], <<"$", "t", "m", "e", "r">>)
       \/ StartsWith(tokens[1], <<"t", "m", "e", "r">>)

\* the tokens between the first one and the first "x"
species_tokens(tokens) == SubSeq(tokens, 2, IndexOf(tokens, <<"x">>) - 1)

\* the loop over tokens[stochiometry_start:], with the values read so far
RECURSIVE StochiometryLoop(_, _)
StochiometryLoop(tokens, values) ==
    IF tokens = <<>> THEN Return(values)
    ELSE IF StartsWith(Head(tokens), <<"$", "w">>) THEN Return(values)
    ELSE LET v == PyInt(Head(tokens))
         IN  IF ~v.ok THEN Raise("int", Head(tokens))
             ELSE StochiometryLoop(Tail(tokens), Append(values, v.val))

stochiometry_values(tokens) ==
    StochiometryLoop(SubSeq(tokens, IndexOf(tokens, <<"x">>) + 1, Len(tokens)), <<>>)

\* the loop over relevant_paths: the last segment that is not empty and does
\* not start with "$", "" when there is none
RECURSIVE LastRelevantPath(_, _)
LastRelevantPath(relevant_paths, found) ==
    IF relevant_paths = <<>> THEN found
    ELSE LET relevant_path == Strip(Head(relevant_paths))
         IN  LastRelevantPath(Tail(relevant_paths),
                              IF StartsWith(relevant_path, <<"$">>) \/ relevant_path = <<>>
                              THEN found ELSE relevant_path)

token_to_search(token) == LastRelevantPath(Split(token, "/"), <<>>)

\* x not in list, for each x of more: the names of more not yet in list
RECURSIVE NotYetIn(_, _)
NotYetIn(list, more) ==
    IF more = <<>> THEN <<>>
    ELSE IF InList(Head(more), list) THEN NotYetIn(list, Tail(more))
    ELSE <<Head(more)>> \o NotYetIn(Append(list, Head(more)), Tail(more))

\* the loop gathering each name once
RECURSIVE SpeciesLoopUnique(_, _)
SpeciesLoopUnique(tokens, species) ==
    IF tokens = <<>> THEN Return(species)
    ELSE LET t == token_to_search(Head(tokens))
         IN  IF t = <<>> THEN SpeciesLoopUnique(Tail(tokens), species)
             ELSE IF Contains(t, "{") /\ Contains(t, "}")
             THEN LET r == extract_species_from_path(t)
                  IN  IF r.raised # "none" THEN r
                      ELSE SpeciesLoopUnique(Tail(tokens),
                                             species \o NotYetIn(species, r.val))
             ELSE SpeciesLoopUnique(Tail(tokens), species \o NotYetIn(species, <<t>>))

\* the loop over species_tokens, with the species gathered so far
RECURSIVE SpeciesLoop(_, _)
SpeciesLoop(tokens, species) ==
    IF tokens = <<>> THEN Return(species)
    ELSE LET t == token_to_search(Head(tokens))
         IN  IF t = <<>> THEN SpeciesLoop(Tail(tokens), species)
             ELSE IF Contains(t, "{") /\ Contains(t, "}")
             THEN LET r == extract_species_from_path(t)
                  IN  IF r.raised # "none" THEN r
                      ELSE SpeciesLoop(Tail(tokens), species \o r.val)
             ELSE SpeciesLoop(Tail(tokens), Append(species, t))

\* any(s in valid_species ...) for all(...)
AnyValid(species, valid) ==
    species = <<>> \/ \E i \in 1..Len(species) : species[i] \in valid

\* a reaction without any species taken as not valid
AllValidNonEmpty(species, valid) ==
    species # <<>> /\ \A i \in 1..Len(species) : species[i] \in valid

\* all(s in valid_species for s in unique_species)
AllValid(species, valid) == \A i \in 1..Len(species) : species[i] \in valid

\* the three outputs before the first line
NoLines == [result |-> <<>>, list_reaction_species |-> <<>>, list_stochiometries |-> <<>>]

\* a line that is not passed on
DropLine(out, line) == out

\* a line that is passed on without being read
PassLine(out, line) == [out EXCEPT !.result = Append(@, line)]

\* the entry put in front of the lists instead of behind them
KeepReactionInFront(out, line, species, stochiometry) ==
    [result |-> Append(out.result, line),
     list_reaction_species |-> <<species>> \o out.list_reaction_species,
     list_stochiometries |-> <<stochiometry>> \o out.list_stochiometries]

\* the three appends for a reaction whose species are all valid
KeepReaction(out, line, species, stochiometry) ==
    [result |-> Append(out.result, line),
     list_reaction_species |-> Append(out.list_reaction_species, species),
     list_stochiometries |-> Append(out.list_stochiometries, stochiometry)]

\* the loop over res_lines, with the three outputs built so far
RECURSIVE FilterLoop(_, _, _)
FilterLoop(lines, valid, out) ==
    IF lines = <<>> THEN Return(out)
    ELSE LET line == Head(lines)
             stripped == Strip(line)
             tokens == SplitWs(stripped)
         IN  IF stripped = <<>> \/ StartsWith(stripped, <<"#">>)
             THEN FilterLoop(Tail(lines), valid, PassLine(out, line))
             ELSE IF ~IsTmerEntry(tokens)
             THEN FilterLoop(Tail(lines), valid, PassLine(out, line))
             ELSE LET st == stochiometry_values(tokens)
                  IN  IF st.raised # "none" THEN st
                      ELSE LET sp == SpeciesLoop(species_tokens(tokens), <<>>)
                           IN  IF sp.raised # "none" THEN sp
                               ELSE IF AllValid(sp.val, valid)
                               THEN FilterLoop(Tail(lines), valid,
                                               KeepReaction(out, line, sp.val, st.val))
                               ELSE FilterLoop(Tail(lines), valid, out)

filter_res_file(lines, valid) == FilterLoop(lines, valid, NoLines)

---------------------------------------------------------------------------
(* parse_res_file                                                          *)

\* str.splitlines() of a text whose only line boundary is "\n": a final
\* newline ends the last line and starts no new one
SplitLines(s) ==
    LET parts == Split(s, "\n")
    IN  IF s = <<>> THEN <<>>
        ELSE IF parts[Len(parts)] = <<>> THEN SubSeq(parts, 1, Len(parts) - 1)
        ELSE parts

\* a float is the integer number of its thousandths
FloatScale == 1000

RECURSIVE PadFraction(_)
PadFraction(digits) == IF Len(digits) >= 3 THEN digits ELSE PadFraction(Append(digits, "0"))

\* float(s) of a str: surrounding whitespace is ignored, then an optional
\* sign, digits, and an optional "." with digits, one of the two digit runs
\* not empty (the strings of the model hold no exponent, underscore, inf or
\* nan, and at most three digits after the point)
PyFloat(s) ==
    LET t == Strip(s)
        signed == t # <<>> /\ Head(t) \in {"+", "-"}
        d == IF signed THEN Tail(t) ELSE t
        parts == Split(d, ".")
        whole == parts[1]
        fraction == IF Len(parts) = 2 THEN parts[2] ELSE <<>>
        magnitude == DigitsValue(whole, 0) * FloatScale + DigitsValue(PadFraction(fraction), 0)
    IN  IF /\ Len(parts) <= 2
           /\ whole \o fraction # <<>>
           /\ \A i \in 1..Len(whole) : IsDigit(whole[i])
           /\ \A i \in 1..Len(fraction) : IsDigit(fraction[i])
           /\ Len(fraction) <= 3
        THEN [ok |-> TRUE, val |-> IF signed /\ Head(t) = "-" THEN -magnitude ELSE magnitude]
        ELSE [ok |-> FALSE, val |-> 0]

Abs(v) == IF v < 0 THEN -v ELSE v

\* the largest difference between computed and reference energy that is kept
MaxDifference == 750

\* the test with >= for >: a difference of exactly 750 is refused
TooLargeOrEqual(comp_energy, ref_energy) ==
    Abs(comp_energy - ref_energy) >= MaxDifference * FloatScale

\* abs(comp_energy - ref_energy) > 750
TooLarge(comp_energy, ref_energy) ==
    Abs(comp_energy - ref_energy) > MaxDifference * FloatScale

\* print(...) when the condition holds
PrintIf(cond, out, message) == IF cond THEN Append(out, message) ELSE out

\* the statements of the try block for one line: the row they append, the
\* `continue` they reach, or the ValueError they raise
TryBlock(index, tokens, strict, verbose) ==
    LET ref_energy == PyFloat(Strip(tokens[8]))
        comp_energy == PyFloat(Strip(tokens[6]))
    IN  IF ~ref_energy.ok \/ ~comp_energy.ok
        THEN [then |-> "raise", why |-> "float", row |-> <<>>, printed |-> <<>>]
        ELSE IF TooLarge(comp_energy.val, ref_energy.val)
        THEN [then |-> IF strict THEN "raise" ELSE "continue",
              why |-> "large difference",
              row |-> <<>>,
              printed |-> PrintIf(verbose /\ ~strict, <<>>, "Skipping line")]
        ELSE [then |-> "append", why |-> "",
              row |-> <<index, ref_energy.val, comp_energy.val>>,
              printed |-> <<>>]

\* the try statement with its `except ValueError` clause
TryExcept(index, tokens, strict, verbose) ==
    LET t == TryBlock(index, tokens, strict, verbose)
    IN  IF t.then # "raise" THEN t
        ELSE [then |-> IF strict THEN "raise" ELSE "continue",
              why |-> "conversion",
              row |-> <<>>,
              printed |-> PrintIf(verbose /\ ~strict, t.printed, "Conversion not possible")]

\* the branch a line with fewer than eight tokens takes treated as a blank line
TooFewTokensIgnored(strict, verbose) ==
    [then |-> "continue", why |-> "", row |-> <<>>, printed |-> <<>>]

\* the else branch: a line with fewer than eight tokens
TooFewTokens(strict, verbose) ==
    [then |-> IF strict THEN "raise" ELSE "continue",
     why |-> "not enough tokens",
     row |-> <<>>,
     printed |-> PrintIf(verbose /\ ~strict, <<>>, "Not enough tokens")]

\* a blank line counted like any other
IndexAfterBlankCounted(index) == index + 1

\* `continue` for a blank line, ahead of `index += 1`
IndexAfterBlank(index) == index

\* index = -1 before the loop
IndexBeforeLoop == -1

\* the loop body for one non-blank line, after index += 1
LineStep(index, tokens, strict, verbose) ==
    IF Len(tokens) >= 8
    THEN TryExcept(index, tokens, strict, verbose)
    ELSE TooFewTokens(strict, verbose)

\* the loop over the lines, with the rows, the index and the messages so far;
\* AfterLine is the loop once the body has run for the line `line`
RECURSIVE ParseLoop(_, _, _, _, _, _)
RECURSIVE AfterLine(_, _, _, _, _, _, _, _)
ParseLoop(lines, strict, verbose, data, index, out) ==
    IF lines = <<>> THEN [res |-> Return(data), printed |-> out]
    ELSE IF Strip(Head(lines)) = <<>>
    THEN ParseLoop(Tail(lines), strict, verbose, data, IndexAfterBlank(index), out)
    ELSE AfterLine(LineStep(index + 1, SplitWs(Strip(Head(lines))), strict, verbose),
                   Strip(Head(lines)), Tail(lines), strict, verbose, data, index + 1, out)

AfterLine(step, line, lines, strict, verbose, data, index, out) ==
    IF step.then = "raise"
    THEN [res |-> Raise(step.why, line), printed |-> out \o step.printed]
    ELSE ParseLoop(lines, strict, verbose,
                   IF step.then = "append" THEN Append(data, step.row) ELSE data,
                   index, out \o step.printed)

\* the returned or raised value and the messages printed on the way
parse_res_file(res_content, strict, verbose_level) ==
    ParseLoop(SplitLines(res_content), strict, verbose_level > 1, <<>>, IndexBeforeLoop, <<>>)

---------------------------------------------------------------------------
(* evaluate_benchmark                                                      *)

\* an exception that is no ValueError
RaiseOther(kind) == [raised |-> kind, why |-> "", about |-> <<>>, val |-> <<>>]

\* set(allowed_mols_names)
NameSet(ms) == {ms[i].name : i \in 1..Len(ms)}

\* the rows joined to the reactions by their position in res_data instead of
\* their index
RECURSIVE RowsLoopByPosition(_, _, _, _)
RowsLoopByPosition(data, reactions, stochiometries, rows) ==
    IF data = <<>> THEN Return(rows)
    ELSE IF Len(rows) >= Len(reactions) THEN RaiseOther("IndexError")
    ELSE RowsLoopByPosition(Tail(data), reactions, stochiometries,
                            Append(rows, <<reactions[Len(rows) + 1],
                                           stochiometries[Len(rows) + 1],
                                           Head(data)[2], Head(data)[3]>>))

\* the loop `for index, ref, comp in res_data`: reactions[index] raises
\* IndexError when index is no position of the list
RECURSIVE RowsLoop(_, _, _, _)
RowsLoop(data, reactions, stochiometries, rows) ==
    IF data = <<>> THEN Return(rows)
    ELSE LET index == Head(data)[1]
         IN  IF index >= Len(reactions) THEN RaiseOther("IndexError")
             ELSE RowsLoop(Tail(data), reactions, stochiometries,
                           Append(rows, <<reactions[index + 1], stochiometries[index + 1],
                                          Head(data)[2], Head(data)[3]>>))

\* the indices from the number of rows on, as if only the last reactions
\* could be without a row
MissingIndicesTrailing(reactions, data) == Len(data)..(Len(reactions) - 1)

\* set(range(len(reactions))) - {index for index, *_ in res_data}
MissingIndices(reactions, data) ==
    (0..(Len(reactions) - 1)) \ {data[i][1] : i \in 1..Len(data)}

\* one "could not be parsed" message for each missing index
CouldNotBeParsed(missing) == [i \in 1..Cardinality(missing) |-> "could not be parsed"]

\* pd.concat of the dataframe and the new rows, or the one of them that is
\* not empty
Concat2(dataframe, new_rows) == dataframe \o new_rows

\* evaluate_benchmark from `# 4. Add the results to the dataframe` on
merge_results(dataframe, reactions, stochiometries, data, verbose_level, out) ==
    LET warn == Len(reactions) # Len(data) /\ verbose_level > 0
        missing == IF warn THEN MissingIndices(reactions, data) ELSE {}
        rows == RowsLoop(data, reactions, stochiometries, <<>>)
    IN  [res |-> IF rows.raised # "none" THEN rows ELSE Return(Concat2(dataframe, rows.val)),
         printed |-> IF warn THEN out \o <<"Warning">> \o CouldNotBeParsed(missing) ELSE out,
         missing |-> missing]

\* `if reactions:` on what filter_res_file gave for the allowed molecules
FilteredFor(allowed, filtered) ==
    [allowed_mols |-> allowed,
     valid_species |-> NameSet(allowed),
     filtered |-> filtered,
     then |-> IF filtered.raised # "none" THEN "raise"
              ELSE IF filtered.val.list_reaction_species # <<>> THEN "run"
              ELSE "no reactions"]

\* evaluate_benchmark up to sp.run: the composition filter and the reaction
\* file filter; then is "run" when the filtered file is to be scored
before_run(ms, c, lines) ==
    FilteredFor(check_molecule_composition(ms, c),
                filter_res_file(lines, NameSet(check_molecule_composition(ms, c))))

\* the script started whenever filter_res_file returned, reactions or not
ScriptStartedUnguarded(then, runs) == IF then # "raise" THEN runs + 1 ELSE runs

\* `if reactions:` ... sp.run([...]): the one call that starts the script
ScriptStarted(then, runs) == IF then = "run" THEN runs + 1 ELSE runs

\* sp.run without check=True: the exit status is not looked at
CheckFalse(code) == Return(code)

\* sp.run(check=True): another exit status than 0 raises CalledProcessError
CheckTrue(code) == IF code # 0 THEN RaiseOther("CalledProcessError") ELSE Return(code)

\* the try statement around parse_res_file, and what follows it
MergeParsed(parsed, dataframe, reactions, stochiometries, verbose_level) ==
    IF parsed.res.raised # "none"
    THEN [res |-> parsed.res,
          printed |-> Append(parsed.printed, "Errors while parsing"),
          missing |-> {},
          data |-> parsed.res]
    ELSE [data |-> parsed.res] @@
         merge_results(dataframe, reactions, stochiometries, parsed.res.val,
                       verbose_level, parsed.printed)

\* evaluate_benchmark from the output of sp.run on
after_run(dataframe, reactions, stochiometries, stdout, strict, verbose_level) ==
    MergeParsed(parse_res_file(stdout, strict, verbose_level),
                dataframe, reactions, stochiometries, verbose_level)

---------------------------------------------------------------------------
(* statistical_measures. A table is the sequence of its rows (Reaction,    *)
(* Stochiometry, ReferenceValue, MethodValue); its values are thousandths. *)
(* A statistic is not-a-number, a fraction num/den or the square root of a *)
(* fraction. The numpy functions are handed pandas Series and so return    *)
(* what the Series methods of the same name return.                        *)

NaN == [kind |-> "nan", num |-> 0, den |-> 1]
Ratio(num, den) == [kind |-> "ratio", num |-> num, den |-> den]

\* subset_data["ReferenceValue"] and subset_data["MethodValue"]
ReferenceValue(subset_data) == [i \in 1..Len(subset_data) |-> subset_data[i][3]]
MethodValue(subset_data) == [i \in 1..Len(subset_data) |-> subset_data[i][4]]

\* subset_data["MethodValue"] - subset_data["ReferenceValue"]
SeriesMinus(a, b) == [i \in 1..Len(a) |-> a[i] - b[i]]

\* np.abs(series) and series**2
SeriesAbs(series) == [i \in 1..Len(series) |-> Abs(series[i])]
SeriesSquare(series) == [i \in 1..Len(series) |-> series[i] * series[i]]

RECURSIVE SeriesSum(_)
SeriesSum(series) == IF series = <<>> THEN 0 ELSE Head(series) + SeriesSum(Tail(series))

\* np.mean(series): not-a-number for an empty series
SeriesMean(series) ==
    IF series = <<>> THEN NaN ELSE Ratio(SeriesSum(series), Len(series))

\* the standard deviation with the number of values as divisor, whatever
\* ddof says
SeriesStdPopulation(series, ddof) ==
    IF series = <<>> THEN NaN
    ELSE [kind |-> "sqrt",
          num |-> Len(series) * SeriesSum(SeriesSquare(series))
                    - SeriesSum(series) * SeriesSum(series),
          den |-> Len(series) * Len(series)]

\* np.std(series, ddof=ddof): the root of the squared deviations from the
\* mean over len - ddof; not-a-number when there are at most ddof values
SeriesStd(series, ddof) ==
    IF Len(series) <= ddof THEN NaN
    ELSE [kind |-> "sqrt",
          num |-> Len(series) * SeriesSum(SeriesSquare(series))
                    - SeriesSum(series) * SeriesSum(series),
          den |-> Len(series) * (Len(series) - ddof)]

\* np.sqrt(x)
Sqrt(x) == IF x.kind = "nan" THEN NaN ELSE [kind |-> "sqrt", num |-> x.num, den |-> x.den]

\* np.max(series) and np.min(series): not-a-number for an empty series
SeriesMax(series) ==
    IF series = <<>> THEN NaN
    ELSE Ratio(CHOOSE v \in {series[i] : i \in 1..Len(series)} :
                   \A i \in 1..Len(series) : series[i] <= v, 1)

SeriesMin(series) ==
    IF series = <<>> THEN NaN
    ELSE Ratio(CHOOSE v \in {series[i] : i \in 1..Len(series)} :
                   \A i \in 1..Len(series) : series[i] >= v, 1)

\* np.max(errors) - np.min(errors)
Difference(a, b) ==
    IF a.kind = "nan" \/ b.kind = "nan" THEN NaN ELSE Ratio(a.num - b.num, 1)

StatsDict(subset_data, errors) ==
    [N |-> Len(subset_data),
     MeanAbsRef |-> SeriesMean(SeriesAbs(ReferenceValue(subset_data))),
     MAE |-> SeriesMean(SeriesAbs(errors)),
     MSE |-> SeriesMean(errors),
     STDDEV |-> SeriesStd(errors, 1),
     RMSD |-> Sqrt(SeriesMean(SeriesSquare(errors))),
     MAX |-> SeriesMax(errors),
     MIN |-> SeriesMin(errors),
     ErrRange |-> Difference(SeriesMax(errors), SeriesMin(errors))]

statistical_measures(subset_data) ==
    Return(StatsDict(subset_data,
                     SeriesMinus(MethodValue(subset_data), ReferenceValue(subset_data))))

---------------------------------------------------------------------------
(* The values the other operations start from when a run does not use them *)

IdleElements == arg_items = <<>> /\ allowed_elements = None /\ elem_out = NoResult

IdleFilter ==
    /\ args = <<>>
    /\ config = NoResult
    /\ mols = <<>>
    /\ allowed_mols = <<>>
    /\ refiltered = <<>>

IdleRequired == mol = <<>> /\ required_elements = <<>> /\ has_required = FALSE

IdleSpecies == path = <<>> /\ species_out = NoResult

IdleRes == res_lines = <<>> /\ valid_species = {} /\ res_out = NoResult

IdleParse ==
    /\ res_file_content = <<>>
    /\ strictmode = FALSE
    /\ verbosity = 0
    /\ res_data = NoResult
    /\ printed = <<>>

IdleBench ==
    /\ bench_out = NoResult
    /\ missing_indices = {}
    /\ script_runs = 0
    /\ returncode = NoneInt

IdleStats == benchmark_results = <<>> /\ stats = NoResult

---------------------------------------------------------------------------
(* The element selector: main() parses --allowed-elements.                 *)

InitElements ==
    /\ pc = "elements"
    /\ arg_items \in ItemLists
    /\ allowed_elements \in {Join(arg_items)} \cup (IF arg_items = <<>> THEN {None} ELSE {})
    /\ elem_out = NoResult
    /\ IdleFilter /\ IdleRequired /\ IdleSpecies
    /\ IdleRes /\ IdleParse /\ IdleBench
    /\ IdleStats

ParseElements ==
    /\ pc = "elements"
    /\ elem_out' = parse_element_list(allowed_elements)
    /\ pc' = "elements parsed"
    /\ UNCHANGED <<arg_items, allowed_elements, filterVars, requiredVars, speciesVars>>
    /\ UNCHANGED <<resVars, parseVars, benchVars>>
    /\ UNCHANGED statVars

NextElements == ParseElements

SpecElements == InitElements /\ [][NextElements]_vars

---------------------------------------------------------------------------
(* The molecules: what get_molecules_from_filesystem builds. num_atoms is  *)
(* the length of ati; name is the directory's name, unique in a run.       *)

ElemIdx == 0..MaxElem

AtiLists == UNION {[1..n -> ElemIdx] : n \in 1..MaxAtoms}

Molecule(name, ati, charge, uhf) ==
    [name |-> name, ati |-> ati, num_atoms |-> Len(ati), charge |-> charge, uhf |-> uhf]

\* directory i of the run holds molecule i
Named(ms) == [i \in 1..Len(ms) |-> [ms[i] EXCEPT !.name = i]]

---------------------------------------------------------------------------
(* molecule_has_required_elements on its own. The tuples are what          *)
(* parse_required_elements builds from parse_element_list's sorted lists,  *)
(* in any combination.                                                     *)

Groups == {SortedList(S) : S \in SUBSET ElemIdx}

GroupLists == UNION {[1..n -> Groups] : n \in 0..MaxGroups}

InitRequired ==
    /\ pc = "required"
    /\ mol \in {Molecule(1, a, 0, 0) : a \in AtiLists}
    /\ required_elements \in GroupLists
    /\ has_required = FALSE
    /\ IdleElements /\ IdleFilter /\ IdleSpecies
    /\ IdleRes /\ IdleParse /\ IdleBench
    /\ IdleStats

HasRequired ==
    /\ pc = "required"
    /\ has_required' = molecule_has_required_elements(mol, required_elements)
    /\ pc' = "required checked"
    /\ UNCHANGED <<mol, required_elements, elemVars, filterVars, speciesVars>>
    /\ UNCHANGED <<resVars, parseVars, benchVars>>
    /\ UNCHANGED statVars

NextRequired == HasRequired

SpecRequired == InitRequired /\ [][NextRequired]_vars

---------------------------------------------------------------------------
(* MoleculeConstraints(...) on its own                                     *)

OptBounds(lo) == {NoneInt} \cup {Some(v) : v \in lo..MaxBound}

InitConstraints ==
    /\ pc = "constraints"
    /\ args \in [required_elements : {<<>>},
                 min_charge : OptBounds(-MaxBound), max_charge : OptBounds(-MaxBound),
                 max_uhf : OptBounds(0),
                 min_num_atoms : OptBounds(0), max_num_atoms : OptBounds(0)]
    /\ config = NoResult
    /\ mols = <<>> /\ allowed_mols = <<>> /\ refiltered = <<>>
    /\ IdleElements /\ IdleRequired /\ IdleSpecies
    /\ IdleRes /\ IdleParse /\ IdleBench
    /\ IdleStats

Construct ==
    /\ pc = "constraints"
    /\ config' = MoleculeConstraints(<<>>, args.required_elements,
                                     args.min_charge, args.max_charge, args.max_uhf,
                                     args.min_num_atoms, args.max_num_atoms)
    /\ pc' = "constructed"
    /\ UNCHANGED <<elemVars, args, mols, allowed_mols, refiltered, requiredVars, speciesVars>>
    /\ UNCHANGED <<resVars, parseVars, benchVars>>
    /\ UNCHANGED statVars

NextConstraints == Construct

SpecConstraints == InitConstraints /\ [][NextConstraints]_vars

---------------------------------------------------------------------------
(* main() and evaluate_benchmark up to the composition filter              *)

\* what the user wrote into --allowed-elements in a filter run
FilterArgItems ==
    {<<>>,
     <<[k |-> "one", a |-> 1, b |-> 0, t |-> <<>>, pad |-> <<>>]>>,
     <<[k |-> "range", a |-> 1, b |-> 2, t |-> <<>>, pad |-> <<>>]>>}

\* --required-elements-all and --required-elements-one: neither, "1-2", "1,3"
RequiredArgs ==
    {<<None, None>>, <<<<"1", "-", "2">>, None>>, <<None, <<"1", ",", "3">>>>}

\* what parse_required_elements makes of them, and a list of mixed tuples
RequiredChoices ==
    {parse_required_elements(ra[1], ra[2]).val : ra \in RequiredArgs}
      \cup {<<<<0, 1>>, <<2>>>>}

\* the molecules of a filter run
FilterMolecules ==
    {Molecule(0, a, q, u) : a \in {<<0>>, <<1>>, <<0, 1>>, <<1, 2>>},
                            q \in {0, 1}, u \in {0, 1}}

MoleculeLists == UNION {[1..n -> FilterMolecules] : n \in 0..MaxMols}

InitFilter ==
    /\ pc = "main"
    /\ arg_items \in FilterArgItems
    /\ allowed_elements \in {Join(arg_items)} \cup (IF arg_items = <<>> THEN {None} ELSE {})
    /\ elem_out = NoResult
    /\ args \in [required_elements : RequiredChoices,
                 min_charge : {NoneInt, Some(1)}, max_charge : {NoneInt, Some(0), Some(1)},
                 max_uhf : {NoneInt, Some(0)},
                 min_num_atoms : {NoneInt, Some(2)},
                 max_num_atoms : {NoneInt, Some(1), Some(2)}]
    /\ config = NoResult
    /\ mols = <<>>
    /\ allowed_mols = <<>>
    /\ refiltered = <<>>
    /\ IdleRequired /\ IdleSpecies
    /\ IdleRes /\ IdleParse /\ IdleBench
    /\ IdleStats

\* main(): parse_element_list, then MoleculeConstraints(...)
Configure ==
    /\ pc = "main"
    /\ LET r == parse_element_list(allowed_elements)
           c == IF r.raised # "none" THEN r
                ELSE MoleculeConstraints(r.val, args.required_elements,
                                         args.min_charge, args.max_charge, args.max_uhf,
                                         args.min_num_atoms, args.max_num_atoms)
       IN  /\ elem_out' = r
           /\ config' = c
           /\ pc' = IF c.raised # "none" THEN "failed" ELSE "configured"
    /\ UNCHANGED <<arg_items, allowed_elements, args, mols, allowed_mols, refiltered,
                   requiredVars, speciesVars>>
    /\ UNCHANGED <<resVars, parseVars, benchVars>>
    /\ UNCHANGED statVars

\* main() reads the molecules; evaluate_benchmark filters them:
\* allowed_mols = check_molecule_composition(mols, verbosity, config)
Evaluate ==
    /\ pc = "configured"
    /\ \E ms \in MoleculeLists :
          /\ mols' = Named(ms)
          /\ allowed_mols' = check_molecule_composition(Named(ms), config.val)
    /\ pc' = "filtered"
    /\ UNCHANGED <<elemVars, args, config, refiltered, requiredVars, speciesVars>>
    /\ UNCHANGED <<resVars, parseVars, benchVars>>
    /\ UNCHANGED statVars

\* the filter run again on its own output with the same constraints
Refilter ==
    /\ pc = "filtered"
    /\ refiltered' = check_molecule_composition(allowed_mols, config.val)
    /\ pc' = "refiltered"
    /\ UNCHANGED <<elemVars, args, config, mols, allowed_mols, requiredVars, speciesVars>>
    /\ UNCHANGED <<resVars, parseVars, benchVars>>
    /\ UNCHANGED statVars

NextFilter == Configure \/ Evaluate \/ Refilter

SpecFilter == InitFilter /\ [][NextFilter]_vars

---------------------------------------------------------------------------
(* extract_species_from_path on its own                                    *)

PathChars == {"a", "b", "{", "}", ",", "/", " "}

\* the four tokens of the docstring
DocTokens ==
    {<<"0", "1", "_", "1", "0", "{", "P", ",", "R", "1", ",", "R", "2", "}",
       "/", "$", "f", "u", "n", "c", "/">>,
     <<"{", "D", "M", "M", "L", "_", "R", "E", "A", "C", "T", ",",
       "D", "M", "M", "L", "_", "I", "N", "T", "1", "}", "/", "$", "f">>,
     <<"{", "e", "d", ",", "t", "s", "}", "1", "/", "$", "f">>,
     <<"A", "{", "M", ",", "D", "}", "2", "/", "$", "f">>}

Paths == DocTokens \cup UNION {[1..n -> PathChars] : n \in 0..MaxPathLen}

InitSpecies ==
    /\ pc = "species"
    /\ path \in Paths
    /\ species_out = NoResult
    /\ IdleElements /\ IdleFilter /\ IdleRequired
    /\ IdleRes /\ IdleParse /\ IdleBench
    /\ IdleStats

Extract ==
    /\ pc = "species"
    /\ species_out' = extract_species_from_path(path)
    /\ pc' = "extracted"
    /\ UNCHANGED <<path, elemVars, filterVars, requiredVars>>
    /\ UNCHANGED <<resVars, parseVars, benchVars>>
    /\ UNCHANGED statVars

NextSpecies == Extract

SpecSpecies == InitSpecies /\ [][NextSpecies]_vars

---------------------------------------------------------------------------
(* filter_res_file on its own. A reaction line is written from a head, its *)
(* species tokens, "x", its stoichiometry tokens and an optional "$w ..."   *)
(* trailer; a file is one such line, or up to MaxLines lines of ResLines.   *)

\* the tokens of a line with one space between them
RECURSIVE JoinTokens(_)
JoinTokens(tokens) ==
    IF tokens = <<>> THEN <<>>
    ELSE IF Len(tokens) = 1 THEN tokens[1]
    ELSE tokens[1] \o <<" ">> \o JoinTokens(Tail(tokens))

TmerHeads == {<<"t", "m", "e", "r">>, <<"$", "t", "m", "e", "r", "2">>}

\* A, d/B/$f, {A,B}/$f, A{B,C}, $f/ and the malformed {}
ResSpeciesTokens ==
    {<<"A">>,
     <<"d", "/", "B", "/", "$", "f">>,
     <<"{", "A", ",", "B", "}", "/", "$", "f">>,
     <<"A", "{", "B", ",", "C", "}">>,
     <<"$", "f", "/">>,
     <<"{", "}">>}

\* 1, -2 and the malformed 1.5
ResStoichTokens == {<<"1">>, <<"-", "2">>, <<"1", ".", "5">>}

\* nothing, or "$w 0.5"
ResTrailers == {<<>>, <<<<"$", "w">>, <<"0", ".", "5">>>>}

ReactionLines ==
    {JoinTokens(<<h>> \o sp \o <<<<"x">>>> \o st \o w) :
        h \in TmerHeads,
        sp \in UNION {[1..n -> ResSpeciesTokens] : n \in 0..MaxSpeciesTokens},
        st \in UNION {[1..n -> ResStoichTokens] : n \in 0..MaxStoich},
        w \in ResTrailers}

\* the lines of the longer files: blank lines, a comment, a line with "x" that
\* is no tmer entry, a tmer line without "x", and reaction lines
ResLines ==
    {<<>>,
     <<" ", " ">>,
     <<"#", " ", "t", "m", "e", "r", " ", "A", " ", "x", " ", "1">>,
     <<"e", "c", "h", "o", " ", "x">>,
     <<"t", "m", "e", "r", " ", "A", " ", "B">>,
     <<" ", "t", "m", "e", "r", " ", "A", " ", "x", " ", "1">>,
     <<"$", "t", "m", "e", "r", "2", " ", "{", "A", ",", "B", "}", "/", "$", "f", " ",
       "x", " ", "-", "2", " ", "1", " ", "$", "w", " ", "0", ".", "5">>,
     <<"t", "m", "e", "r", " ", "d", "/", "B", "/", "$", "f", " ", "A", " ",
       "x", " ", "1", " ", "1">>,
     <<"t", "m", "e", "r", " ", "A", "{", "B", ",", "C", "}", " ", "x", " ", "1", " ",
       "-", "2">>,
     <<"t", "m", "e", "r", " ", "$", "f", "/", " ", "x">>,
     <<"t", "m", "e", "r", " ", "A", " ", "x", " ", "1", ".", "5">>,
     <<"t", "m", "e", "r", " ", "{", "}", " ", "x", " ", "1">>}

ResFiles ==
    {<<l>> : l \in ReactionLines} \cup UNION {[1..n -> ResLines] : n \in 0..MaxLines}

\* the names a molecule directory can have
SpeciesNames == {<<"A">>, <<"B">>, <<"A", "B">>}

InitRes ==
    /\ pc = "res"
    /\ res_lines \in ResFiles
    /\ valid_species \in SUBSET SpeciesNames
    /\ res_out = NoResult
    /\ IdleElements /\ IdleFilter /\ IdleRequired /\ IdleSpecies
    /\ IdleParse /\ IdleBench
    /\ IdleStats

FilterRes ==
    /\ pc = "res"
    /\ res_out' = filter_res_file(res_lines, valid_species)
    /\ pc' = "res filtered"
    /\ UNCHANGED <<res_lines, valid_species>>
    /\ UNCHANGED <<elemVars, filterVars, requiredVars, speciesVars, parseVars, benchVars>>
    /\ UNCHANGED statVars

NextRes == FilterRes

SpecRes == InitRes /\ [][NextRes]_vars

---------------------------------------------------------------------------
(* parse_res_file on its own. A line of the scoring output is eight        *)
(* numbers and a name; the computed value is token 5 and the reference      *)
(* token 7. The text is up to MaxOutLines lines, each ended by "\n".        *)

\* 0, 750, 1000, -250.5, 499.5 and a token that is no number
Zero == <<"0">>

N750 == <<"7", "5", "0">>

N1000 == <<"1", "0", "0", "0">>

NMinus250h == <<"-", "2", "5", "0", ".", "5">>

N499h == <<"4", "9", "9", ".", "5">>

NoNumber == <<"*", "*", "*">>

\* (computed, reference): gaps of 0, 750, 1000 and 250.5 in both directions,
\* and a pair for each token that may fail to convert
EnergyPairs ==
    {<<Zero, Zero>>, <<N750, Zero>>, <<Zero, N750>>, <<N1000, Zero>>, <<Zero, N1000>>,
     <<NMinus250h, N499h>>, <<N499h, NMinus250h>>, <<N750, N499h>>,
     <<NoNumber, Zero>>, <<Zero, NoNumber>>}

\* a line of n tokens with the computed and the reference energy in place
OutLine(pair, n) ==
    JoinTokens(SubSeq(<<Zero, Zero, Zero, Zero, Zero, pair[1], Zero, pair[2], <<"A", "/", "B">>>>,
                      1, n))

OutLines ==
    {<<>>, <<" ">>}
      \cup {OutLine(<<Zero, Zero>>, 7), OutLine(<<N1000, Zero>>, 7)}
      \cup {OutLine(pr, 8) : pr \in EnergyPairs}
      \cup {OutLine(<<Zero, N750>>, 9), <<" ">> \o OutLine(<<N750, Zero>>, 9)}

RECURSIVE JoinLines(_)
JoinLines(lines) ==
    IF lines = <<>> THEN <<>> ELSE Head(lines) \o <<"\n">> \o JoinLines(Tail(lines))

OutTexts == {JoinLines(ls) : ls \in UNION {[1..n -> OutLines] : n \in 0..MaxOutLines}}

InitParse ==
    /\ pc = "parse"
    /\ res_file_content \in OutTexts
    /\ strictmode \in BOOLEAN
    /\ verbosity \in {0, 2}
    /\ res_data = NoResult
    /\ printed = <<>>
    /\ IdleElements /\ IdleFilter /\ IdleRequired /\ IdleSpecies
    /\ IdleRes /\ IdleBench
    /\ IdleStats

ParseRes ==
    /\ pc = "parse"
    /\ \E r \in {parse_res_file(res_file_content, strictmode, verbosity)} :
           /\ res_data' = r.res
           /\ printed' = r.printed
    /\ pc' = "parsed"
    /\ UNCHANGED <<res_file_content, strictmode, verbosity>>
    /\ UNCHANGED <<elemVars, filterVars, requiredVars, speciesVars, resVars, benchVars>>
    /\ UNCHANGED statVars

NextParse == ParseRes

SpecParse == InitParse /\ [][NextParse]_vars

---------------------------------------------------------------------------
(* evaluate_benchmark as main() calls it: the molecules A and B, each with  *)
(* charge 0 or 1, --max-charge 0, an empty dataframe, a .res file of up to  *)
(* MaxBenchLines lines, and whatever the scoring script writes.             *)

BenchMolecules ==
    {<<Molecule(<<"A">>, <<0>>, qa, 0), Molecule(<<"B">>, <<0, 1>>, qb, 0)>> :
        qa \in {0, 1}, qb \in {0, 1}}

BenchConfig == MoleculeConstraints(<<>>, <<>>, NoneInt, Some(0), NoneInt, NoneInt, NoneInt)

\* a comment, two reactions and a reaction with a malformed stoichiometry
BenchResLines ==
    {<<"#", " ", "t", "m", "e", "r", " ", "A", " ", "x", " ", "1">>,
     <<"t", "m", "e", "r", " ", "A", " ", "x", " ", "1">>,
     <<"t", "m", "e", "r", " ", "d", "/", "B", "/", "$", "f", " ", "A", " ",
       "x", " ", "1", " ", "1">>,
     <<"t", "m", "e", "r", " ", "A", " ", "x", " ", "1", ".", "5">>}

BenchFiles == UNION {[1..n -> BenchResLines] : n \in 0..MaxBenchLines}

\* a blank line, a good line, a gap of 1000 and a line of seven tokens
BenchOutLines ==
    {<<>>, OutLine(<<N750, Zero>>, 9), OutLine(<<N1000, Zero>>, 9), OutLine(<<Zero, Zero>>, 7)}

BenchTexts == {JoinLines(ls) : ls \in UNION {[1..n -> BenchOutLines] : n \in 0..MaxOutLines}}

\* benchmark_results = pd.DataFrame(columns=[...]) in main()
EmptyFrame == <<>>

InitBench ==
    /\ pc = "bench"
    /\ mols \in BenchMolecules
    /\ config = BenchConfig
    /\ args = <<>> /\ allowed_mols = <<>> /\ refiltered = <<>>
    /\ res_lines \in BenchFiles
    /\ valid_species = {}
    /\ res_out = NoResult
    /\ res_file_content = <<>>
    /\ strictmode \in BOOLEAN
    /\ verbosity \in {0, 1, 2}
    /\ res_data = NoResult
    /\ printed = <<>>
    /\ bench_out = NoResult
    /\ missing_indices = {}
    /\ script_runs = 0
    /\ returncode = NoneInt
    /\ IdleElements /\ IdleRequired /\ IdleSpecies
    /\ IdleStats

\* the exit statuses of the scoring script
ReturnCodes == {0, 1, 2}

\* evaluate_benchmark up to its call of sp.run, which starts the script and
\* waits for it; without reactions it goes on to its end
BenchFilter ==
    /\ pc = "bench"
    /\ \E b \in {before_run(mols, config.val, res_lines)},
          m \in {merge_results(EmptyFrame, <<>>, <<>>, <<>>, verbosity,
                               <<"No valid reactions found">>)} :
           /\ allowed_mols' = b.allowed_mols
           /\ valid_species' = b.valid_species
           /\ res_out' = b.filtered
           /\ pc' = IF b.then = "run" THEN "scoring" ELSE "bench done"
           /\ res_data' = IF b.then = "no reactions" THEN Return(<<>>) ELSE res_data
           /\ printed' = IF b.then = "no reactions" THEN m.printed ELSE printed
           /\ missing_indices' = IF b.then = "no reactions" THEN m.missing ELSE missing_indices
           /\ bench_out' = CASE b.then = "raise" -> b.filtered
                             [] b.then = "no reactions" -> m.res
                             [] OTHER -> bench_out
           /\ script_runs' = ScriptStarted(b.then, script_runs)
    /\ UNCHANGED <<mols, config, args, refiltered, res_lines, returncode>>
    /\ UNCHANGED <<res_file_content, strictmode, verbosity>>
    /\ UNCHANGED <<elemVars, requiredVars, speciesVars>>
    /\ UNCHANGED statVars

\* the scoring script exits with 0 and evaluate_benchmark reads its output
BenchMerge ==
    /\ pc = "scoring"
    /\ \E code \in ReturnCodes :
          /\ CheckTrue(code).raised = "none"
          /\ returncode' = Some(code)
    /\ \E stdout \in BenchTexts :
          \E a \in {after_run(EmptyFrame, res_out.val.list_reaction_species,
                              res_out.val.list_stochiometries, stdout, strictmode,
                              verbosity)} :
              /\ res_file_content' = stdout
              /\ res_data' = a.data
              /\ printed' = a.printed
              /\ missing_indices' = a.missing
              /\ bench_out' = a.res
    /\ pc' = "bench done"
    /\ UNCHANGED <<strictmode, verbosity, script_runs>>
    /\ UNCHANGED <<elemVars, filterVars, requiredVars, speciesVars, resVars>>
    /\ UNCHANGED statVars

\* the scoring script exits with another status: sp.run(check=True) raises
BenchScriptFails ==
    /\ pc = "scoring"
    /\ \E code \in ReturnCodes :
          /\ CheckTrue(code).raised # "none"
          /\ returncode' = Some(code)
          /\ bench_out' = CheckTrue(code)
    /\ pc' = "bench done"
    /\ UNCHANGED <<missing_indices, script_runs>>
    /\ UNCHANGED <<elemVars, filterVars, requiredVars, speciesVars, resVars, parseVars>>
    /\ UNCHANGED statVars

NextBench == BenchFilter \/ BenchMerge \/ BenchScriptFails

SpecBench == InitBench /\ [][NextBench]_vars

---------------------------------------------------------------------------
(* main() from the table evaluate_benchmark returned on: the empty table   *)
(* it started with, or tables of up to MaxRows rows.                       *)

\* reference and method values, in thousandths
StatValues == {-1000, 0, 500, 2000}

StatRows == {<<<<<<"A">>>>, <<1>>, ref, comp>> : ref \in StatValues, comp \in StatValues}

StatTables == UNION {[1..n -> StatRows] : n \in 0..MaxRows}

InitStats ==
    /\ pc = "stats"
    /\ benchmark_results \in StatTables \cup {EmptyFrame}
    /\ stats = NoResult
    /\ verbosity \in {0, 1}
    /\ res_file_content = <<>>
    /\ strictmode = FALSE
    /\ res_data = NoResult
    /\ printed = <<>>
    /\ IdleElements /\ IdleFilter /\ IdleRequired /\ IdleSpecies
    /\ IdleRes /\ IdleBench

\* stats = statistical_measures(benchmark_results)
Summarize ==
    /\ pc = "stats"
    /\ stats' = statistical_measures(benchmark_results)
    /\ pc' = "stats done"
    /\ UNCHANGED <<benchmark_results>>
    /\ UNCHANGED <<elemVars, filterVars, requiredVars, speciesVars, resVars, parseVars, benchVars>>

NextStats == Summarize

SpecStats == InitStats /\ [][NextStats]_vars

---------------------------------------------------------------------------
(* The whole program: a run is one of the operations above.                *)

Init ==
    \/ InitElements
    \/ InitRequired
    \/ InitConstraints
    \/ InitFilter
    \/ InitSpecies
    \/ InitRes
    \/ InitParse
    \/ InitBench
    \/ InitStats

Next ==
    \/ ParseElements
    \/ HasRequired
    \/ Construct
    \/ Configure
    \/ Evaluate
    \/ Refilter
    \/ Extract
    \/ FilterRes
    \/ ParseRes
    \/ BenchFilter
    \/ BenchMerge
    \/ BenchScriptFails
    \/ Summarize

Spec == Init /\ [][Next]_vars

---------------------------------------------------------------------------
(* Properties of the composition filter (SpecFilter)                       *)

\* the set of the members of a list
Members(list) == {list[i] : i \in 1..Len(list)}

AtomCountWithin(m, c) ==
    /\ c.min_num_atoms # NoneInt => m.num_atoms >= Get(c.min_num_atoms)
    /\ c.max_num_atoms # NoneInt => m.num_atoms <= Get(c.max_num_atoms)

OnlyAllowedElements(m, c) ==
    c.allowed_elements # <<>> => Members(m.ati) \subseteq Members(c.allowed_elements)

ContainsOneGroup(ati, groups) ==
    \E k \in 1..Len(groups) : Members(groups[k]) \subseteq Members(ati)

HasARequiredGroup(m, c) ==
    c.required_elements # <<>> => ContainsOneGroup(m.ati, c.required_elements)

ChargeWithin(m, c) ==
    /\ c.min_charge # NoneInt => m.charge >= Get(c.min_charge)
    /\ c.max_charge # NoneInt => m.charge <= Get(c.max_charge)

UhfWithin(m, c) == c.max_uhf # NoneInt => m.uhf <= Get(c.max_uhf)

AllFive(m, c) ==
    /\ AtomCountWithin(m, c)
    /\ OnlyAllowedElements(m, c)
    /\ HasARequiredGroup(m, c)
    /\ ChargeWithin(m, c)
    /\ UhfWithin(m, c)

Filtered == pc \in {"filtered", "refiltered"}

\* C1: the molecules check_molecule_composition returns are exactly the input
\* molecules for which all five predicates hold, each whole, in input order.
C1_KeptIffAllFive ==
    Filtered =>
        allowed_mols = SelectSeq(mols, LAMBDA m : AllFive(m, config.val))

\* every kind of constraint is given, the first molecule is dropped and the
\* second kept
C1_Witness ==
    /\ pc = "filtered"
    /\ config.val.allowed_elements # <<>> /\ config.val.required_elements # <<>>
    /\ config.val.min_charge # NoneInt /\ config.val.max_charge # NoneInt
    /\ config.val.max_uhf # NoneInt
    /\ config.val.min_num_atoms # NoneInt /\ config.val.max_num_atoms # NoneInt
    /\ Len(mols) = 2
    /\ allowed_mols = <<mols[2]>>

\* C3: filtering the filter's own output with the same constraints returns the
\* same molecules in the same order.
C3_Idempotent == pc = "refiltered" => refiltered = allowed_mols

\* a second pass over a list from which the first pass dropped a molecule
C3_Witness ==
    /\ pc = "refiltered"
    /\ Len(mols) = 2
    /\ Len(allowed_mols) = 1
    /\ Len(refiltered) = 1

\* C4: parse_element_list of None or "" is the empty list, and with an empty
\* allowed_elements no molecule is rejected for its elements: a molecule that
\* passes the other four predicates is kept.
C4_EmptyMeansNoRestriction ==
    /\ (pc # "main" /\ (allowed_elements = None \/ allowed_elements = <<>>))
          => elem_out = Return(<<>>)
    /\ (Filtered /\ config.val.allowed_elements = <<>>) =>
          \A i \in 1..Len(mols) :
              ( /\ AtomCountWithin(mols[i], config.val)
                /\ HasARequiredGroup(mols[i], config.val)
                /\ ChargeWithin(mols[i], config.val)
                /\ UhfWithin(mols[i], config.val) )
                  => mols[i] \in Members(allowed_mols)

\* --allowed-elements is absent and a molecule is kept
C4_Witness ==
    /\ pc = "filtered"
    /\ allowed_elements = None
    /\ elem_out = Return(<<>>)
    /\ config.val.allowed_elements = <<>>
    /\ Len(mols) = 2
    /\ allowed_mols = <<mols[1]>>

---------------------------------------------------------------------------
(* Properties of molecule_has_required_elements (SpecRequired)             *)

\* C2: molecule_has_required_elements is true exactly when some tuple has every
\* one of its elements among the molecule's atoms.
C2_OrOfAnds ==
    pc = "required checked" =>
        (has_required <=> ContainsOneGroup(mol.ati, required_elements))

\* groups [(0, 1), (2,)] and a molecule that holds 2 but not both 0 and 1
C2_Witness ==
    /\ pc = "required checked"
    /\ required_elements = <<<<0, 1>>, <<2>>>>
    /\ mol.ati = <<2, 0>>
    /\ has_required

---------------------------------------------------------------------------
(* Properties of MoleculeConstraints (SpecConstraints)                     *)

Contradicts(lower, upper) ==
    lower # NoneInt /\ upper # NoneInt /\ ~(Get(lower) <= Get(upper))

\* C8: the constructor raises exactly when min_charge > max_charge or
\* min_num_atoms > max_num_atoms; what it constructs has lower <= upper for
\* each range with both bounds, and holds the bounds it was given.
C8_BoundsOrdered ==
    pc = "constructed" =>
        IF \/ Contradicts(args.min_charge, args.max_charge)
           \/ Contradicts(args.min_num_atoms, args.max_num_atoms)
        THEN config.raised = "ValueError"
        ELSE /\ config.raised = "none"
             /\ ~Contradicts(config.val.min_charge, config.val.max_charge)
             /\ ~Contradicts(config.val.min_num_atoms, config.val.max_num_atoms)
             /\ config.val.min_charge = args.min_charge
             /\ config.val.max_charge = args.max_charge
             /\ config.val.min_num_atoms = args.min_num_atoms
             /\ config.val.max_num_atoms = args.max_num_atoms

\* the charge range is fine (equal bounds) and the atom range is contradictory
C8_Witness ==
    /\ pc = "constructed"
    /\ args.min_charge = Some(1) /\ args.max_charge = Some(1)
    /\ args.min_num_atoms = Some(2) /\ args.max_num_atoms = Some(1)
    /\ config.raised = "ValueError"

---------------------------------------------------------------------------
(* Properties of parse_element_list (SpecElements)                         *)

Parsed == pc = "elements parsed"

\* the list 0, 1, ..., n - 1
UpTo(n) == [i \in 1..n |-> i - 1]

\* C5: "*-b" gives exactly the indices 0..b-1, all of them in 0..102.
C5_UptoFromZero ==
    (Parsed /\ Len(arg_items) = 1 /\ arg_items[1].k = "upto"
            /\ arg_items[1].a \in 1..MaxAtomicNumber)
        => /\ elem_out = Return(UpTo(arg_items[1].a))
           /\ Members(elem_out.val) \subseteq 0..(MaxAtomicNumber - 1)

\* an item N, a-b or a-* with 1-based numbers and a <= b
OneBased(it) ==
    /\ it.k \in {"one", "range", "from"}
    /\ it.a >= 1
    /\ it.k = "range" => it.a <= it.b

\* the indices such an item stands for
Denotes(it) ==
    CASE it.k = "one" -> {it.a - 1}
      [] it.k = "range" -> (it.a - 1)..(it.b - 1)
      [] OTHER -> (it.a - 1)..(MaxAtomicNumber - 1)

StrictlyAscending(list) == \A i \in 1..(Len(list) - 1) : list[i] < list[i + 1]

\* C6: a list of items N, a-b, a-* gives the ascending, duplicate-free list of
\* the union of what the items stand for.
C6_UnionOfItems ==
    (Parsed /\ arg_items # <<>> /\ \A i \in 1..Len(arg_items) : OneBased(arg_items[i]))
        => /\ elem_out.raised = "none"
           /\ StrictlyAscending(elem_out.val)
           /\ Members(elem_out.val) = UNION {Denotes(arg_items[i]) : i \in 1..Len(arg_items)}

\* "5,1-3": the items out of order
C6_Witness ==
    /\ Parsed
    /\ allowed_elements = <<"5", ",", "1", "-", "3">>
    /\ elem_out.val = <<0, 1, 2, 4>>

\* C7: a list with an item "*-*" raises, whatever its other items.
C7_BothWildcardRaises ==
    (Parsed /\ \E i \in 1..Len(arg_items) : arg_items[i].k = "both")
        => elem_out.raised = "ValueError" /\ elem_out.val = <<>>

\* "2-3,*-*": the wildcard range after a good item
C7_Witness ==
    /\ Parsed
    /\ allowed_elements = <<"2", "-", "3", ",", "*", "-", "*">>
    /\ elem_out = Raise("both wildcard", <<>>)

---------------------------------------------------------------------------
(* Properties of extract_species_from_path (SpecSpecies)                   *)

Extracted == pc = "extracted"

\* the position of the first c in s, 0 when there is none
FirstIndex(s, c) ==
    IF Contains(s, c)
    THEN CHOOSE i \in 1..Len(s) : s[i] = c /\ \A j \in 1..(i - 1) : s[j] # c
    ELSE 0

NoneOf(s, cs) == \A i \in 1..Len(s) : s[i] \notin cs

\* a token read as prefix{list}suffix[/...]
TokPrefix(t) == SubSeq(t, 1, FirstIndex(t, "{") - 1)

TokList(t) == SubSeq(t, FirstIndex(t, "{") + 1, FirstIndex(t, "}") - 1)

TokSuffix(t) ==
    LET rest == SubSeq(t, FirstIndex(t, "}") + 1, Len(t))
        k == FirstIndex(rest, "/")
    IN  IF k = 0 THEN rest ELSE SubSeq(rest, 1, k - 1)

\* prefix and suffix hold no brace and no "/", the list is not empty and holds
\* no brace
IsBraceToken(t) ==
    /\ FirstIndex(t, "{") > 0
    /\ FirstIndex(t, "}") > FirstIndex(t, "{") + 1
    /\ NoneOf(TokPrefix(t), {"/"})
    /\ NoneOf(TokList(t), {"{"})
    /\ NoneOf(TokSuffix(t), {"{", "}"})

TokNames(t) ==
    LET its == Split(TokList(t), ",")
    IN  [i \in 1..Len(its) |-> TokPrefix(t) \o Strip(its[i]) \o TokSuffix(t)]

\* C9: a token prefix{i1,i2,...}suffix, with or without a "/..." after it, gives
\* prefix + trim(i) + suffix for each item i, in the order of the items.
C9_ExpandsInOrder ==
    (Extracted /\ IsBraceToken(path)) => species_out = Return(TokNames(path))

\* 'A{M,D}2/$f' gives ['AM2', 'AD2']
C9_Witness ==
    /\ Extracted
    /\ path = <<"A", "{", "M", ",", "D", "}", "2", "/", "$", "f">>
    /\ species_out.val = <<<<"A", "M", "2">>, <<"A", "D", "2">>>>

\* the number of "{" less the number of "}" among the first n characters
RECURSIVE BraceDepth(_, _)
BraceDepth(t, n) ==
    IF n = 0 THEN 0
    ELSE BraceDepth(t, n - 1)
           + (IF t[n] = "{" THEN 1 ELSE IF t[n] = "}" THEN -1 ELSE 0)

Unbalanced(t) ==
    \/ BraceDepth(t, Len(t)) # 0
    \/ \E n \in 1..Len(t) : BraceDepth(t, n) < 0

MatchesNoForm(t) == \A k \in 1..Len(FormOrder) : ~FormMatches(FormOrder[k], t)

\* C10: a token that matches none of the four forms, and so every token with
\* unbalanced braces, raises an error that names the token.
C10_UnbalancedRaises ==
    (Extracted /\ (MatchesNoForm(path) \/ Unbalanced(path)))
        => species_out = Raise("invalid format", path)

\* the first of the four forms, in the order prefix{list}suffix, prefix{list},
\* {list}suffix, {list}, whose pattern matches the token
FirstMatching(t) ==
    LET order == <<"before and after", "before", "after", "none">>
    IN  order[CHOOSE k \in 1..4 :
                  /\ FormMatches(order[k], t)
                  /\ \A j \in 1..(k - 1) : ~FormMatches(order[j], t)]

\* the part of the token a form takes as prefix and the part it takes as
\* suffix
PrefixTaken(f, t) ==
    CASE f = "before and after" -> Group(ReMatch(ReBaseBeforeAndAfter, t), t, 1)
      [] f = "before" -> Group(ReMatch(ReBaseBefore, t), t, 1)
      [] OTHER -> <<>>

SuffixTaken(f, t) ==
    CASE f = "before and after" -> Group(ReMatch(ReBaseBeforeAndAfter, t), t, 5)
      [] f = "after" -> Group(ReMatch(ReBaseAfter, t), t, 4)
      [] OTHER -> <<>>

\* C26: the result is the one of the first form that matches, tried in the
\* order prefix{list}suffix, prefix{list}, {list}suffix, {list}; the part
\* taken as prefix and the part taken as suffix hold no "{" and no "}", and
\* the suffix holds no "/".
C26_FirstFormWithBraceFreeAffixes ==
    (Extracted /\ species_out.raised = "none") =>
        /\ ~MatchesNoForm(path)
        /\ species_out.val = ExpandForm(FirstMatching(path), path)
        /\ NoneOf(PrefixTaken(FirstMatching(path), path), {"{", "}"})
        /\ NoneOf(SuffixTaken(FirstMatching(path), path), {"{", "}", "/"})

---------------------------------------------------------------------------
(* Properties of filter_res_file (SpecRes)                                 *)

ResFiltered == pc = "res filtered" /\ res_out.raised = "none"

IsBlank(line) == \A i \in 1..Len(line) : line[i] = " "

IsComment(line) == ~IsBlank(line) /\ Head(LStrip(line)) = "#"

\* a standalone token "x" and a first token starting with tmer or $tmer
IsReactionLine(line) ==
    LET toks == SplitWs(line)
    IN  /\ ~IsBlank(line)
        /\ ~IsComment(line)
        /\ \E i \in 1..Len(toks) : toks[i] = <<"x">>
        /\ \/ StartsWith(toks[1], <<"t", "m", "e", "r">>)
           \/ StartsWith(toks[1], <<"$", "t", "m", "e", "r">>)

NotReactionLine(line) == ~IsReactionLine(line)

\* the position of the first standalone "x" of a reaction line
XPos(toks) == CHOOSE i \in 1..Len(toks) : toks[i] = <<"x">> /\ \A j \in 1..(i - 1) : toks[j] # <<"x">>

\* the last "/"-segment of a token that is not empty and does not start with
\* "$"; the empty string when the token has none
LastSegment(token) ==
    LET segs == Split(token, "/")
        good == {i \in 1..Len(segs) : segs[i] # <<>> /\ Head(segs[i]) # "$"}
    IN  IF good = {} THEN <<>>
        ELSE segs[CHOOSE i \in good : \A j \in good : j <= i]

\* the names one species token stands for
NamesOfToken(token) ==
    LET seg == LastSegment(token)
    IN  IF seg = <<>> THEN <<>>
        ELSE IF Contains(seg, "{") /\ Contains(seg, "}") THEN TokNames(seg)
        ELSE <<seg>>

RECURSIVE Concat(_)
Concat(lists) == IF lists = <<>> THEN <<>> ELSE Head(lists) \o Concat(Tail(lists))

\* the species a reaction line names, in token order, duplicates retained
ExpectedSpecies(line) ==
    LET toks == SplitWs(line)
    IN  Concat([i \in 1..(XPos(toks) - 2) |-> NamesOfToken(toks[i + 1])])

\* the integers after "x", up to the first token starting with $w
ExpectedStoich(line) ==
    LET toks == SplitWs(line)
        x == XPos(toks)
        ws == {i \in (x + 1)..Len(toks) : StartsWith(toks[i], <<"$", "w">>)}
        last == IF ws = {} THEN Len(toks) ELSE (CHOOSE i \in ws : \A j \in ws : i <= j) - 1
    IN  [i \in 1..(last - x) |-> PyInt(toks[x + i]).val]

\* the number of members of a list for which Test holds
CountIf(list, Test(_)) == Len(SelectSeq(list, Test))

\* C11: every line that is blank, a comment or no reaction line is in the
\* result, unchanged and in its original order relative to the other such
\* lines, whatever valid_species is; such lines add nothing to the species and
\* stoichiometry lists, which hold entries for reaction lines only.
C11_OtherLinesPassThrough ==
    ResFiltered =>
        /\ SelectSeq(res_out.val.result, NotReactionLine)
              = SelectSeq(res_lines, NotReactionLine)
        /\ Len(res_out.val.list_reaction_species) <= CountIf(res_lines, IsReactionLine)
        /\ Len(res_out.val.list_stochiometries) <= CountIf(res_lines, IsReactionLine)
        /\ (\A i \in 1..Len(res_lines) : NotReactionLine(res_lines[i]))
              => /\ res_out.val.result = res_lines
                 /\ res_out.val.list_reaction_species = <<>>
                 /\ res_out.val.list_stochiometries = <<>>

\* a comment, a dropped reaction and a line that is no tmer entry
C11_Witness ==
    /\ ResFiltered
    /\ Len(res_lines) = 3
    /\ IsComment(res_lines[1])
    /\ IsReactionLine(res_lines[2])
    /\ res_lines[3] = <<"e", "c", "h", "o", " ", "x">>
    /\ res_out.val.result = <<res_lines[1], res_lines[3]>>
    /\ res_out.val.list_reaction_species = <<>>

AllNamesValid(line) ==
    \A i \in 1..Len(ExpectedSpecies(line)) : ExpectedSpecies(line)[i] \in valid_species

DroppedLine(line) == IsReactionLine(line) /\ ~AllNamesValid(line)

KeptLine(line) == ~DroppedLine(line)

\* C12: a reaction line is kept exactly when every name of its expanded
\* species list is in valid_species; the result is the input without the
\* other reaction lines, and no entry exists for a dropped line.
C12_KeptIffAllValid ==
    ResFiltered =>
        /\ res_out.val.result = SelectSeq(res_lines, KeptLine)
        /\ Len(res_out.val.result) = Len(res_lines) - CountIf(res_lines, DroppedLine)
        /\ Len(res_out.val.list_reaction_species)
              = CountIf(res_lines, IsReactionLine) - CountIf(res_lines, DroppedLine)
        /\ Len(res_out.val.list_stochiometries)
              = CountIf(res_lines, IsReactionLine) - CountIf(res_lines, DroppedLine)

\* a reaction with a valid and an invalid name is dropped between two kept
C12_Witness ==
    /\ ResFiltered
    /\ valid_species = {<<"A">>}
    /\ Len(res_lines) = 3
    /\ res_lines[2] = <<"t", "m", "e", "r", " ", "d", "/", "B", "/", "$", "f", " ", "A", " ",
                        "x", " ", "1", " ", "1">>
    /\ IsReactionLine(res_lines[1]) /\ IsReactionLine(res_lines[3])
    /\ res_out.val.result = <<res_lines[1], res_lines[3]>>
    /\ Len(res_out.val.list_reaction_species) = 2

\* the reaction lines of the result, in order
KeptReactions == SelectSeq(res_out.val.result, IsReactionLine)

\* C13: the species list and the stoichiometry list have one entry per
\* reaction line of the result, and entry i of each is what the i-th reaction
\* line of the result gives when it is filtered alone.
C13_EntriesAligned ==
    ResFiltered =>
        /\ Len(res_out.val.list_reaction_species) = Len(KeptReactions)
        /\ Len(res_out.val.list_stochiometries) = Len(KeptReactions)
        /\ \A i \in 1..Len(KeptReactions) :
              LET alone == filter_res_file(<<KeptReactions[i]>>, valid_species)
              IN  /\ alone.raised = "none"
                  /\ alone.val.list_reaction_species
                        = <<res_out.val.list_reaction_species[i]>>
                  /\ alone.val.list_stochiometries
                        = <<res_out.val.list_stochiometries[i]>>

\* two kept reactions with different entries and a passed line between them
C13_Witness ==
    /\ ResFiltered
    /\ Len(res_lines) = 3
    /\ NotReactionLine(res_lines[2])
    /\ res_out.val.result = res_lines
    /\ res_out.val.list_reaction_species = <<<<<<"A">>, <<"B">>>>, <<<<"A">>>>>>
    /\ res_out.val.list_stochiometries = <<<<-2, 1>>, <<1>>>>

\* C14: the species list of a kept reaction line is the concatenation, over
\* the tokens between the first token and the first "x", of the names of each
\* token's last "/"-segment that is not empty and does not start with "$"
\* (expanded when it holds both braces, duplicates retained); its
\* stoichiometry list is the integers after "x" up to the first "$w..." token.
C14_EntriesFromTokens ==
    ResFiltered =>
        \A i \in 1..Len(KeptReactions) :
            /\ i <= Len(res_out.val.list_reaction_species)
            /\ i <= Len(res_out.val.list_stochiometries)
            /\ res_out.val.list_reaction_species[i] = ExpectedSpecies(KeptReactions[i])
            /\ res_out.val.list_stochiometries[i] = ExpectedStoich(KeptReactions[i])

\* "$tmer2 d/B/$f {A,B}/$f x -2 1 $w 0.5": B, then A and B again
C14_Witness ==
    /\ ResFiltered
    /\ res_lines = << <<"$", "t", "m", "e", "r", "2", " ", "d", "/", "B", "/", "$", "f", " ",
                        "{", "A", ",", "B", "}", "/", "$", "f", " ", "x", " ", "-", "2", " ",
                        "1", " ", "$", "w", " ", "0", ".", "5">> >>
    /\ res_out.val.list_reaction_species = <<<<<<"B">>, <<"A">>, <<"B">>>>>>
    /\ res_out.val.list_stochiometries = <<<<-2, 1>>>>

\* a reaction line without species: no token between the marker and "x", or
\* only tokens whose "/"-segments are all empty or start with "$"
NoSpeciesLine(line) ==
    /\ IsReactionLine(line)
    /\ \A i \in 2..(XPos(SplitWs(line)) - 1) : LastSegment(SplitWs(line)[i]) = <<>>

\* C27: a reaction line without species is kept whatever valid_species is,
\* the empty set included, and its entry in the species list is the empty
\* list.
C27_NoSpeciesLineKept ==
    ResFiltered =>
        /\ SelectSeq(res_out.val.result, NoSpeciesLine) = SelectSeq(res_lines, NoSpeciesLine)
        /\ \A i \in 1..Len(KeptReactions) :
              NoSpeciesLine(KeptReactions[i]) =>
                  /\ i <= Len(res_out.val.list_reaction_species)
                  /\ res_out.val.list_reaction_species[i] = <<>>

\* no name is valid, a reaction of species A is dropped and the reaction
\* 'tmer $f/ x' after it is kept with an empty entry
C27_Witness ==
    /\ ResFiltered
    /\ valid_species = {}
    /\ Len(res_lines) = 2
    /\ IsReactionLine(res_lines[1]) /\ ~NoSpeciesLine(res_lines[1])
    /\ res_lines[2] = <<"t", "m", "e", "r", " ", "$", "f", "/", " ", "x">>
    /\ res_out.val.result = <<res_lines[2]>>
    /\ res_out.val.list_reaction_species = <<<<>>>>

---------------------------------------------------------------------------
(* Properties of parse_res_file (SpecParse)                                *)

ParseReturned == pc = "parsed" /\ res_data.raised = "none"

\* the lines of the raw text
RawLines == SplitLines(res_file_content)

\* the number of non-blank lines among the first k lines
NonBlankUpTo(k) == Cardinality({j \in 1..k : ~IsBlank(RawLines[j])})

\* the value of a number token of the output, in thousandths
NumberValue(token) ==
    CASE token = Zero -> 0
      [] token = N750 -> 750000
      [] token = N1000 -> 1000000
      [] token = NMinus250h -> -250500
      [] token = N499h -> 499500

IsNumber(token) == token \in {Zero, N750, N1000, NMinus250h, N499h}

\* at least eight tokens, tokens 5 and 7 numbers
WellFormed(line) ==
    LET toks == SplitWs(line)
    IN  Len(toks) >= 8 /\ IsNumber(toks[6]) /\ IsNumber(toks[8])

\* |computed - reference| of a well-formed line, in thousandths
Gap(line) ==
    LET toks == SplitWs(line)
        d == NumberValue(toks[6]) - NumberValue(toks[8])
    IN  IF d < 0 THEN -d ELSE d

Retained(line) == ~IsBlank(line) /\ WellFormed(line) /\ Gap(line) <= 750000

\* the positions of the retained lines, in order
RetainedAt == SelectSeq([k \in 1..Len(RawLines) |-> k], LAMBDA k : Retained(RawLines[k]))

\* C16: the index of a returned row is the number of non-blank lines before
\* its line, whether those were retained or skipped; the indices are strictly
\* increasing and each is smaller than the number of non-blank lines.
C16_IndexCountsNonBlankLines ==
    ParseReturned =>
        /\ Len(res_data.val) = Len(RetainedAt)
        /\ \A i \in 1..Len(res_data.val) :
              /\ i <= Len(RetainedAt)
              /\ res_data.val[i][1] = NonBlankUpTo(RetainedAt[i] - 1)
              /\ res_data.val[i][1] < NonBlankUpTo(Len(RawLines))
        /\ \A i \in 1..(Len(res_data.val) - 1) : res_data.val[i][1] < res_data.val[i + 1][1]

\* a skipped line, a blank line and a retained line: the row has index 1
C16_Witness ==
    /\ ParseReturned
    /\ Len(RawLines) = 3
    /\ ~IsBlank(RawLines[1]) /\ ~Retained(RawLines[1])
    /\ IsBlank(RawLines[2])
    /\ Retained(RawLines[3])
    /\ Len(res_data.val) = 1
    /\ res_data.val[1][1] = 1

\* the row of a retained line: its index, token 7 and token 5
ExpectedRow(k) ==
    LET toks == SplitWs(RawLines[k])
    IN  <<NonBlankUpTo(k - 1), NumberValue(toks[8]), NumberValue(toks[6])>>

\* C17: in non-strict mode parse_res_file does not raise and returns, in line
\* order, one row (index, token 7, token 5) for each non-blank line with at
\* least eight tokens, numbers at 5 and 7 and a gap of at most 750, and no row
\* for any other line.
C17_NonStrictSkips ==
    (pc = "parsed" /\ ~strictmode) =>
        /\ res_data.raised = "none"
        /\ res_data.val = [i \in 1..Len(RetainedAt) |-> ExpectedRow(RetainedAt[i])]

\* a gap of 1000 is skipped and a gap of exactly 750 retained
C17_Witness ==
    /\ pc = "parsed" /\ ~strictmode
    /\ RawLines = <<OutLine(<<N1000, Zero>>, 8), OutLine(<<NMinus250h, N499h>>, 8)>>
    /\ res_data = Return(<<<<1, 499500, -250500>>>>)

\* the first non-blank line that is not retained, 0 when there is none
FirstFaulty ==
    LET faulty == {k \in 1..Len(RawLines) : ~IsBlank(RawLines[k]) /\ ~Retained(RawLines[k])}
    IN  IF faulty = {} THEN 0 ELSE CHOOSE k \in faulty : \A j \in faulty : k <= j

\* C18: in strict mode parse_res_file raises at the first non-blank line with
\* fewer than eight tokens, a token 5 or 7 that is no number, or a gap above
\* 750, and returns no rows; when there is no such line it returns one row per
\* non-blank line, with the indices 0, 1, ..., n - 1.
C18_StrictAborts ==
    (pc = "parsed" /\ strictmode) =>
        IF FirstFaulty # 0
        THEN /\ res_data.raised = "ValueError"
             /\ res_data.val = <<>>
             /\ res_data.about = Strip(RawLines[FirstFaulty])
        ELSE /\ res_data.raised = "none"
             /\ Len(res_data.val) = NonBlankUpTo(Len(RawLines))
             /\ \A i \in 1..Len(res_data.val) : res_data.val[i][1] = i - 1

\* a good line, then a line of seven tokens, then a line with a gap of 1000
C18_Witness ==
    /\ pc = "parsed" /\ strictmode
    /\ Len(RawLines) = 3
    /\ Retained(RawLines[1])
    /\ RawLines[2] = OutLine(<<Zero, Zero>>, 7)
    /\ RawLines[3] = OutLine(<<N1000, Zero>>, 8)
    /\ res_data = Raise("not enough tokens", RawLines[2])

\* C19: in strict mode, when the line that aborts the parse has numbers at
\* tokens 5 and 7 and a gap above 750, the error is the one for an excessively
\* large difference, not the one for a failed conversion to floats.
C19_StrictNamesTheCondition ==
    (pc = "parsed" /\ strictmode /\ FirstFaulty # 0
        /\ WellFormed(RawLines[FirstFaulty]) /\ Gap(RawLines[FirstFaulty]) > 750000)
        => res_data.raised = "ValueError" /\ res_data.why = "large difference"

---------------------------------------------------------------------------
(* Properties of evaluate_benchmark (SpecBench)                            *)

\* the reaction file has been filtered
BenchFiltered == pc \in {"scoring", "bench done"}

\* C15: without --strict a malformed reaction line (a stoichiometry token that
\* is no integer, a malformed brace expression) does not end the evaluation:
\* filtering the reaction file returns, and the lines that are no reaction
\* lines are all in its result.
C15_MalformedLineSkippedUnlessStrict ==
    (BenchFiltered /\ ~strictmode) =>
        /\ res_out.raised = "none"
        /\ bench_out.raised # "ValueError"
        /\ SelectSeq(res_out.val.result, NotReactionLine)
              = SelectSeq(res_lines, NotReactionLine)

\* the kept reactions
Reactions == res_out.val.list_reaction_species

\* C20: when the parsed rows are fewer than the kept reactions, or the scoring
\* output has more non-blank lines than there are kept reactions,
\* evaluate_benchmark still returns its table.
C20_MismatchNeverFails ==
    (pc = "bench done" /\ res_out.raised = "none" /\ res_data.raised = "none"
        /\ \/ Len(res_data.val) < Len(Reactions)
           \/ NonBlankUpTo(Len(RawLines)) > Len(Reactions))
        => bench_out.raised = "none"

\* evaluate_benchmark has come to its reconciliation with a number of parsed
\* rows that is not the number of kept reactions
CountMismatch ==
    /\ pc = "bench done"
    /\ res_out.raised = "none"
    /\ res_data.raised = "none"
    /\ Len(Reactions) # Len(res_data.val)

\* the indices of kept reactions for which the scoring output has no retained
\* line at that position among its non-blank lines
NoRowIndices ==
    {i \in 0..(Len(Reactions) - 1) :
        \A k \in 1..Len(RetainedAt) : NonBlankUpTo(RetainedAt[k] - 1) # i}

\* the mismatch is reported: the warning, one message per reaction without a
\* row, and exactly those reactions
MismatchReported ==
    /\ \E k \in 1..Len(printed) : printed[k] = "Warning"
    /\ missing_indices = NoRowIndices
    /\ Len(SelectSeq(printed, LAMBDA message : message = "could not be parsed"))
          = Cardinality(NoRowIndices)

TableReturned ==
    /\ pc = "bench done"
    /\ res_out.raised = "none"
    /\ res_data.raised = "none"
    /\ bench_out.raised = "none"

\* the row of the table for the retained output line k: the species and the
\* stoichiometries of the kept reaction at the line's position among the
\* non-blank lines, then token 7 and token 5
JoinedRow(k) ==
    <<res_out.val.list_reaction_species[ExpectedRow(k)[1] + 1],
      res_out.val.list_stochiometries[ExpectedRow(k)[1] + 1],
      ExpectedRow(k)[2], ExpectedRow(k)[3]>>

\* C22: every row of the returned table carries the species list and the
\* stoichiometry list of the i-th kept reaction, i being the position of its
\* output line among the non-blank lines, also when earlier lines were
\* skipped; the table has one such row for each retained line, in order.
C22_RowsJoinedByIndex ==
    TableReturned =>
        /\ Len(bench_out.val) = Len(RetainedAt)
        /\ \A k \in 1..Len(bench_out.val) :
              /\ k <= Len(RetainedAt)
              /\ ExpectedRow(RetainedAt[k])[1] < Len(Reactions)
              /\ bench_out.val[k] = JoinedRow(RetainedAt[k])

\* two kept reactions of different species, the first output line skipped:
\* the only row is joined to the second reaction
C22_Witness ==
    /\ TableReturned
    /\ Len(Reactions) = 2 /\ Reactions[1] # Reactions[2]
    /\ Len(RawLines) = 2 /\ ~IsBlank(RawLines[1]) /\ ~Retained(RawLines[1])
    /\ Retained(RawLines[2])
    /\ Len(bench_out.val) = 1
    /\ bench_out.val[1][1] = Reactions[2]

\* filter_res_file returned at least one reaction
KeptSome == res_out.raised = "none" /\ Len(Reactions) > 0

\* C23 as claimed: in every call of evaluate_benchmark the scoring script is
\* started exactly once, never zero times and never a second time.
C23_ScriptRunsExactlyOnce ==
    /\ script_runs <= 1
    /\ pc = "bench done" => script_runs = 1

\* C23 as amended: in every call of evaluate_benchmark the scoring script is
\* started at most once: exactly once when filter_res_file keeps at least one
\* reaction and not at all otherwise; it is never started a second time, also
\* not after it failed.
C23_ScriptRunsOnceIfReactions ==
    /\ script_runs <= 1
    /\ pc = "bench" => script_runs = 0
    /\ pc = "scoring" => script_runs = 1 /\ KeptSome
    /\ pc = "bench done" => script_runs = (IF KeptSome THEN 1 ELSE 0)
    /\ returncode # NoneInt => script_runs = 1

\* the script was started once, failed, and the call is over
C23_Witness ==
    /\ pc = "bench done"
    /\ KeptSome
    /\ script_runs = 1
    /\ returncode = Some(1)

\* the scoring script has exited with another status than 0
ScriptFailed == returncode # NoneInt /\ Get(returncode) # 0

\* C24: when the scoring script exits with a non-zero status, in strict and
\* in non-strict mode, evaluate_benchmark is over with CalledProcessError:
\* parse_res_file was not called on any output, nothing was reconciled and no
\* table is returned.
C24_ScriptFailureIsFatal ==
    ScriptFailed =>
        /\ pc = "bench done"
        /\ bench_out = RaiseOther("CalledProcessError")
        /\ res_data = NoResult
        /\ res_file_content = <<>>
        /\ missing_indices = {}

\* exit status 2 without --strict
C24_Witness ==
    /\ pc = "bench done"
    /\ ~strictmode
    /\ returncode = Some(2)
    /\ bench_out.raised = "CalledProcessError"

---------------------------------------------------------------------------
(* Properties of statistical_measures (SpecStats)                          *)

Summarized == pc = "stats done"

\* the statistics other than N
Derived == {"MeanAbsRef", "MAE", "MSE", "STDDEV", "RMSD", "MAX", "MIN", "ErrRange"}

\* C25: on a table of no row statistical_measures returns a summary with
\* N = 0 in which every derived statistic is not-a-number, and on a table of
\* one row a summary with N = 1 in which the sample standard deviation is
\* not-a-number and every other statistic is the one of the single error;
\* neither call raises.
C25_DegenerateTablesGiveNaN ==
    (Summarized /\ Len(benchmark_results) <= 1) =>
        /\ stats.raised = "none"
        /\ stats.val.N = Len(benchmark_results)
        /\ stats.val.STDDEV = NaN
        /\ Len(benchmark_results) = 0 => \A key \in Derived : stats.val[key] = NaN
        /\ Len(benchmark_results) = 1 =>
              LET ref == benchmark_results[1][3]
                  err == benchmark_results[1][4] - benchmark_results[1][3]
              IN  /\ stats.val.MeanAbsRef = Ratio(IF ref < 0 THEN -ref ELSE ref, 1)
                  /\ stats.val.MAE = Ratio(IF err < 0 THEN -err ELSE err, 1)
                  /\ stats.val.MSE = Ratio(err, 1)
                  /\ stats.val.RMSD = [kind |-> "sqrt", num |-> err * err, den |-> 1]
                  /\ stats.val.MAX = Ratio(err, 1)
                  /\ stats.val.MIN = Ratio(err, 1)
                  /\ stats.val.ErrRange = Ratio(0, 1)

\* a table of one row with an error of -3: N = 1, no standard deviation
C25_Witness ==
    /\ Summarized
    /\ Len(benchmark_results) = 1
    /\ benchmark_results[1][3] = 2000 /\ benchmark_results[1][4] = -1000
    /\ stats.val.N = 1
    /\ stats.val.STDDEV = NaN
    /\ stats.val.MSE = Ratio(-3000, 1)

=============================================================================
